---------------------------- MODULE Spec2Model ----------------------------
(***************************************************************************)
(* The Triadic Verification Core of the OpLogica decision engines: the     *)
(* rule evaluators, the reason-graph builders, the policy compliance       *)
(* checkers (PoI), the PoO generator and the bundle assembler.             *)
(*                                                                         *)
(* Conventions.                                                            *)
(*  - A score of the source in [0,1] is an integer number of hundredths    *)
(*    (0.5 is 50); money, years and minutes are integers.                  *)
(*  - A numeric field the caller left out is Undefined; Number(undefined)  *)
(*    is NaN. Both compare false with every number, as in JavaScript.      *)
(*  - A boolean field is "true", "false" or "undefined"; a string field    *)
(*    the caller left out is "".                                           *)
(*  - A JavaScript string that the code compares (the ISO timestamps) is   *)
(*    a sequence of UTF-16 code units.                                     *)
(*  - SHA-256 and HMAC-SHA256 are collision-free constructors.             *)
(***************************************************************************)
EXTENDS Integers, Sequences, FiniteSets, TLC

VARIABLES
    clock,      \* the wall-clock readings of the last call, first to last
    engine,     \* the engine module the last call went to
    op,         \* the exported function the last call was to
    input,      \* the input record of the last call
    decision,   \* the decision returned (evaluate) or passed in (verifyPoI)
    steps,      \* values of the evaluator's local variables at named program points
    poo,        \* the Proof of Operation of the last call
    por,        \* the Proof of Reason of the last call
    poi,        \* the Proof of Intent of the last call
    bundle,     \* the verification bundle of the last call
    pooLog,     \* every generatePoO call made so far: arguments and result
    history,    \* every evaluate, verifyPoI and createVerificationBundle call made so far
    stream      \* the chat server: usage counters and the /api/ai/stream requests in flight

vars == <<clock, engine, op, input, decision, steps, poo, por, poi, bundle, pooLog, history,
          stream>>

---------------------------------------------------------------------------
(* JavaScript values *)

Undefined == -1
NaN == -2

IsNum(x) == x \notin {Undefined, NaN}

\* Number(x) of a field that is a number or missing
Number(x) == IF x = Undefined THEN NaN ELSE x

\* x != null ? x : d
Dflt(x, d) == IF x = Undefined THEN d ELSE x

\* x || d   (0, NaN and undefined are falsy)
OrElse(x, d) == IF x \in {Undefined, NaN, 0} THEN d ELSE x

\* a < b, a <= b, a > b, a >= b with a possibly undefined or NaN
Lt(a, b) == IsNum(a) /\ a < b
Le(a, b) == IsNum(a) /\ a <= b
Gt(a, b) == IsNum(a) /\ a > b
Ge(a, b) == IsNum(a) /\ a >= b

\* Math.min(hi, Math.max(lo, x)) on numbers
Clamp(lo, hi, x) == IF x < lo THEN lo ELSE IF x > hi THEN hi ELSE x

\* x === true, x !== false on a boolean field
IsTrue(x) == x = "true"
NotFalse(x) == x # "false"

---------------------------------------------------------------------------
(* Strings and the wall clock *)

\* n written with w decimal digits, zero padded
RECURSIVE Digits(_, _)
Digits(n, w) == IF w = 0 THEN <<>> ELSE Append(Digits(n \div 10, w - 1), 48 + (n % 10))

\* An instant is <<year, month, day, hour, minute, second, millisecond>> (UTC).
\* Date.prototype.toISOString: YYYY-MM-DDTHH:mm:ss.sssZ, and the expanded
\* +YYYYYY form for years past 9999.
ToISOString(t) ==
    LET year == IF t[1] > 9999 THEN <<43>> \o Digits(t[1], 6) ELSE Digits(t[1], 4)
    IN  year \o <<45>> \o Digits(t[2], 2) \o <<45>> \o Digits(t[3], 2) \o <<84>>
             \o Digits(t[4], 2) \o <<58>> \o Digits(t[5], 2) \o <<58>> \o Digits(t[6], 2)
             \o <<46>> \o Digits(t[7], 3) \o <<90>>

\* '2024-11-15T09:00:00Z', the declaration_timestamp of every policy
DeclarationTimestamp ==
    Digits(2024, 4) \o <<45>> \o Digits(11, 2) \o <<45>> \o Digits(15, 2) \o <<84>>
        \o Digits(9, 2) \o <<58>> \o Digits(0, 2) \o <<58>> \o Digits(0, 2) \o <<90>>

\* a < b on JavaScript strings: by code unit, a proper prefix is smaller
RECURSIVE StrLt(_, _)
StrLt(a, b) ==
    IF b = <<>> THEN FALSE
    ELSE IF a = <<>> THEN TRUE
    ELSE IF Head(a) # Head(b) THEN Head(a) < Head(b)
    ELSE StrLt(Tail(a), Tail(b))

\* chronological order of instants
RECURSIVE InstantLe(_, _)
InstantLe(s, t) ==
    IF s = <<>> THEN TRUE
    ELSE IF Head(s) # Head(t) THEN Head(s) < Head(t)
    ELSE InstantLe(Tail(s), Tail(t))

---------------------------------------------------------------------------
(* Cryptographic helpers *)

POO_SECRET == "oplogica-verification-key"

Sha256(data) == <<"sha256", data>>
HmacSha256(key, data) == <<"hmac", key, data>>

\* generateSignature(data)
GenerateSignature(data) == HmacSha256(POO_SECRET, data)

\* (2n + d) / 2d rounded down: n / d rounded to the nearest integer, as toFixed does
RoundDiv(n, d) == (2 * n + d) \div (2 * d)

\* policy_hash: SHA-256 over name, version, declaration timestamp and the
\* constraints' id + rule texts (the rule text is identified by the id)
PolicyHash(policy) ==
    Sha256(<<policy.policy_name, policy.version, policy.declaration_timestamp,
             [i \in DOMAIN policy.constraints |-> policy.constraints[i].id]>>)

\* generatePoO with the clock reading hashed in place of the timestamp argument
GeneratePoOClock(prefix, data, policy, timestamp, now) ==
    LET state == <<"D", data, "P", policy, "T", ToISOString(now)>>
        hash == Sha256(state)
    IN  [hash |-> hash,
         timestamp |-> timestamp,
         signature |-> HmacSha256(POO_SECRET, <<hash, timestamp>>),
         algorithm |-> "SHA-256",
         state_reference |-> <<prefix, now>>]

\* generatePoO(data, policy, timestamp); prefix and now give the state_reference
GeneratePoO(prefix, data, policy, timestamp, now) ==
    LET state == <<"D", data, "P", policy, "T", timestamp>>
        hash == Sha256(state)
    IN  [hash |-> hash,
         timestamp |-> timestamp,
         signature |-> HmacSha256(POO_SECRET, <<hash, timestamp>>),
         algorithm |-> "SHA-256",
         state_reference |-> <<prefix, now>>]

\* one level in which an odd last leaf is hashed alone, not paired with itself
PairUpOddAlone(hashes) ==
    [i \in 1..((Len(hashes) + 1) \div 2) |->
        LET left == hashes[2 * i - 1]
        IN  IF 2 * i <= Len(hashes) THEN Sha256(<<left, hashes[2 * i]>>)
            ELSE Sha256(<<left>>)]

\* one level of computeMerkleRoot: adjacent pairs hashed, an odd last leaf
\* paired with itself
PairUp(hashes) ==
    [i \in 1..((Len(hashes) + 1) \div 2) |->
        LET left == hashes[2 * i - 1]
            right == IF 2 * i <= Len(hashes) THEN hashes[2 * i] ELSE left
        IN  Sha256(<<left, right>>)]

RECURSIVE ComputeMerkleRoot(_)
ComputeMerkleRoot(hashes) ==
    IF Len(hashes) = 0 THEN Sha256("empty")
    ELSE IF Len(hashes) = 1 THEN hashes[1]
    ELSE ComputeMerkleRoot(PairUp(hashes))

\* the graph with its first edge also recorded in the opposite direction
SealGraphBackEdge(vertices, edges) ==
    LET back == IF Len(edges) = 0 THEN <<>>
                ELSE <<<<edges[1][2], edges[1][1], "supports">>>>
        graph == [vertices |-> vertices, edges |-> edges \o back]
        graphHash == Sha256(graph)
    IN  [graph |-> graph, hash |-> graphHash, signature |-> GenerateSignature(graphHash)]

\* the graph hash and its signature, the tail of every generatePoR
SealGraph(vertices, edges) ==
    LET graph == [vertices |-> vertices, edges |-> edges]
        graphHash == Sha256(graph)
    IN  [graph |-> graph, hash |-> graphHash, signature |-> GenerateSignature(graphHash)]

\* every(r => r.satisfied) over all rows, the severity filter left out
AllRowsSatisfied(results) ==
    \A i \in DOMAIN results : results[i].satisfied

\* results.filter(r => r.severity === 'mandatory').every(r => r.satisfied)
AllMandatorySatisfied(results) ==
    \A i \in DOMAIN results : results[i].severity = "mandatory" => results[i].satisfied

\* the Axiom 3.1 row that closes every verifyPoI
TemporalRow(declaration, timestamp) ==
    [constraint |-> <<"Axiom 3.1", "Temporal Precedence">>,
     satisfied |-> StrLt(declaration, timestamp),
     severity |-> "mandatory"]

\* the record with the policy hash computed again at each call, the clock
\* reading hashed in
SealPoIRehashed(policy, results, now) ==
    [policy |-> policy.policy_name,
     policy_hash |-> Sha256(<<PolicyHash(policy), ToISOString(now)>>),
     declaration_time |-> policy.declaration_timestamp,
     verification_time |-> ToISOString(now),
     all_satisfied |-> AllMandatorySatisfied(results),
     results |-> results]

\* the record every verifyPoI returns
SealPoI(policy, results, now) ==
    [policy |-> policy.policy_name,
     policy_hash |-> PolicyHash(policy),
     declaration_time |-> policy.declaration_timestamp,
     verification_time |-> ToISOString(now),
     all_satisfied |-> AllMandatorySatisfied(results),
     results |-> results]

\* poi.results.find(r => r.constraint.includes('Temporal'))
FindTemporal(results) ==
    LET hits == {i \in DOMAIN results : results[i].constraint[2] = "Temporal Precedence"}
    IN  IF hits = {} THEN <<>>
        ELSE <<results[CHOOSE i \in hits : \A j \in hits : i <= j]>>

\* overall_result from all_satisfied alone, the edge count left out
OverallResultAnyGraph(all_satisfied, edges) ==
    IF all_satisfied THEN "VERIFIED" ELSE "FAILED"

\* poi.all_satisfied && por.graph.edges.length > 0 ? 'VERIFIED' : 'FAILED'
OverallResult(all_satisfied, edges) ==
    IF all_satisfied /\ Len(edges) > 0 THEN "VERIFIED" ELSE "FAILED"

\* createVerificationBundle(poo, por, poi)
CreateVerificationBundle(prefix, p_oo, p_or, p_oi, now) ==
    LET leaves == <<p_oo.hash, p_or.hash, p_oi.policy_hash>>
        temporalRow == FindTemporal(p_oi.results)
    IN  [bundle_id |-> <<prefix, now>>,
         created_at |-> ToISOString(now),
         poo |-> p_oo,
         por |-> p_or,
         poi |-> p_oi,
         merkle_root |-> ComputeMerkleRoot(leaves),
         verification_predicate |->
            [signatures_valid |-> TRUE,
             logic_valid |-> Len(p_or.graph.edges) > 0,
             temporal_precedence |-> IF temporalRow = <<>> THEN FALSE ELSE temporalRow[1].satisfied,
             constraints_satisfied |-> p_oi.all_satisfied,
             merkle_verified |-> TRUE],
         overall_result |-> OverallResult(p_oi.all_satisfied, p_or.graph.edges)]

\* cur = next without the guard: a soft rule that overwrites what it finds
SoftUnguarded(cur, neutral, next) == next

\* if (cur === neutral) cur = next  -- the guarded assignment of the soft rules
Soft(cur, neutral, next) == IF cur = neutral THEN next ELSE cur

\* if (fN) cur = next: the multi-trigger rule without its guard on the current value
MultiTriggerUnguarded(count, cur, neutral, next) ==
    IF count >= 3 THEN next ELSE cur

\* const fN = triggeredCount >= 3; if (fN && cur === neutral) cur = next
MultiTrigger(count, cur, neutral, next) ==
    IF count >= 3 /\ cur = neutral THEN next ELSE cur

\* the number of rules of a list that fired (triggeredCount++ in each branch)
RECURSIVE CountTrue(_)
CountTrue(flags) ==
    IF flags = <<>> THEN 0
    ELSE (IF Head(flags) THEN 1 ELSE 0) + CountTrue(Tail(flags))

\* the ids of the rules that pushed a reason, in program order
RECURSIVE Pushed(_)
Pushed(rules) ==
    IF rules = <<>> THEN <<>>
    ELSE (IF Head(rules).triggered THEN <<Head(rules).id>> ELSE <<>>) \o Pushed(Tail(rules))

\* an allRules entry that records the opposite of the rule's flag
RuleNegated(id, triggered) == [id |-> id, triggered |-> ~triggered]

Rule(id, triggered) == [id |-> id, triggered |-> triggered]
Constraint(id, severity) == [id |-> id, severity |-> severity]
Row(id, name, satisfied) ==
    [constraint |-> <<id, name>>, satisfied |-> satisfied, severity |-> "mandatory"]
Vertex(id, type, label) == [id |-> id, type |-> type, label |-> label]

\* String.prototype.toUpperCase on the category and type names callers send
ToUpperCase(s) ==
    CASE s = "mortgage" -> "MORTGAGE"
      [] s = "maternal" -> "MATERNAL"
      [] s = "trauma" -> "TRAUMA"
      [] s = "renovation" -> "RENOVATION"
      [] s = "contract" -> "CONTRACT"
      [] s = "license" -> "LICENSE"
      [] s = "technical" -> "TECHNICAL"
      [] OTHER -> s

---------------------------------------------------------------------------
(* Credit Assessment Engine v2.0  (src/creditEngine.js) *)

CREDIT_POLICY ==
    [policy_name |-> "Financial Credit Assessment Protocol v2.0",
     version |-> "2.0.0",
     declaration_timestamp |-> DeclarationTimestamp,
     constraints |-> <<Constraint("F1", "mandatory"), Constraint("F2", "mandatory"),
                       Constraint("F3", "mandatory"), Constraint("F4", "mandatory"),
                       Constraint("F5", "mandatory"), Constraint("F6", "mandatory"),
                       Constraint("F7", "mandatory"), Constraint("F8", "mandatory"),
                       Constraint("F9", "warning"), Constraint("F10", "mandatory")>>]

DetectLoanType(d) ==
    IF d.loan_type # "" THEN ToUpperCase(d.loan_type)
    ELSE IF d.collateral_ratio # Undefined THEN "MORTGAGE"
    ELSE IF d.business_revenue # Undefined THEN "BUSINESS"
    ELSE IF d.vehicle_value # Undefined THEN "AUTO"
    ELSE IF d.tuition_amount # Undefined THEN "EDUCATION"
    ELSE "PERSONAL"

\* calculateCreditRisk, in units of 0.0001; the weighted terms are summed
\* over the common denominator 3300 and rounded as toFixed(4) rounds
CalculateCreditRisk(d) ==
    LET creditNorm == Clamp(0, 550, OrElse(d.credit_score, 650) - 300)
        dtiNorm == Clamp(0, 60, OrElse(d.debt_to_income, 30))
        incomeNorm == Clamp(0, 150000, OrElse(d.annual_income, 50000))
        empNorm == Clamp(0, 10, OrElse(d.employment_years, 3))
        payment == Clamp(0, 100, OrElse(d.payment_history_score, 70))
        utilization == Clamp(0, 100, OrElse(d.credit_utilization, 30))
        score == (550 - creditNorm) * 15000 + dtiNorm * 110000
                 + (150000 - incomeNorm) * 33 + (10 - empNorm) * 330000
                 + (100 - payment) * 49500 + utilization * 33000
                 + (IF IsTrue(d.bankruptcy_history) THEN 1650000 ELSE 0)
    IN  Clamp(0, 10000, RoundDiv(score, 3300))

DetermineInterestTier(riskScore, creditScore) ==
    IF riskScore < 2000 /\ creditScore >= 750 THEN "PRIME"
    ELSE IF riskScore < 3500 /\ creditScore >= 680 THEN "PRIME_PLUS"
    ELSE IF riskScore < 5000 THEN "STANDARD"
    ELSE IF riskScore < 7000 THEN "SUBPRIME"
    ELSE "HIGH_RISK"

CreditGeneratePoR(d, dec) ==
    LET mortgage == dec.loan_type = "MORTGAGE"
        vertices ==
            <<Vertex("p1", "premise", <<"credit_score", OrElse(d.credit_score, 650)>>),
              Vertex("p2", "premise", <<"debt_to_income", OrElse(d.debt_to_income, 30)>>),
              Vertex("p3", "premise", <<"annual_income", OrElse(d.annual_income, 50000)>>),
              Vertex("p4", "premise", <<"loan_amount", OrElse(d.loan_amount, 20000)>>),
              Vertex("p5", "premise", <<"employment_years", OrElse(d.employment_years, 3)>>),
              Vertex("p6", "premise", <<"payment_history", OrElse(d.payment_history_score, 70)>>),
              Vertex("p7", "premise", <<"credit_utilization", OrElse(d.credit_utilization, 30)>>),
              Vertex("p8", "premise", <<"loan_type", dec.loan_type>>),
              Vertex("r1", "rule", <<"F1">>), Vertex("r2", "rule", <<"F2">>),
              Vertex("r3", "rule", <<"F3">>), Vertex("r4", "rule", <<"F4">>),
              Vertex("r5", "rule", <<"F5">>), Vertex("r6", "rule", <<"F7">>),
              Vertex("r7", "rule", <<"F8">>), Vertex("r8", "rule", <<"F10">>),
              Vertex("c1", "conclusion", <<"recommendation", dec.recommendation>>),
              Vertex("c2", "conclusion", <<"risk_level", dec.risk_level>>),
              Vertex("c3", "conclusion", <<"interest_tier", dec.interest_rate_tier>>),
              Vertex("c4", "conclusion", <<"risk_score", dec.risk_score>>)>>
            \o (IF mortgage
                THEN <<Vertex("p9", "premise", <<"collateral_ratio", OrElse(d.collateral_ratio, 100)>>),
                       Vertex("r9", "rule", <<"F6">>)>>
                ELSE <<>>)
        edges ==
            <<<<"p1", "r1", "input">>, <<"p2", "r2", "input">>, <<"p3", "r3", "input">>,
              <<"p3", "r4", "input">>, <<"p4", "r4", "input">>, <<"p5", "r5", "input">>,
              <<"p6", "r7", "input">>,
              <<"r1", "c1", "determines">>, <<"r2", "c1", "determines">>,
              <<"r3", "c2", "influences">>, <<"r4", "c1", "influences">>,
              <<"r5", "c2", "influences">>, <<"r6", "c2", "determines">>,
              <<"r7", "c2", "influences">>, <<"r8", "c1", "influences">>,
              <<"c1", "c3", "produces">>, <<"c2", "c3", "produces">>,
              <<"c1", "c4", "produces">>, <<"c2", "c4", "produces">>>>
            \o (IF mortgage
                THEN <<<<"p9", "r9", "input">>, <<"r9", "c1", "influences">>>>
                ELSE <<>>)
    IN  SealGraph(vertices, edges)

CreditVerifyPoI(dec, d, now) ==
    LET cs == Dflt(d.credit_score, 650)
        dti == Dflt(d.debt_to_income, 30)
        results ==
            <<Row("F1", "credit_floor", cs >= 500 \/ dec.recommendation = "DENIED"),
              Row("F2", "dti_ceiling", dti <= 50 \/ dec.recommendation = "DENIED"),
              Row("F4", "loan_to_income",
                  Le(dec.loan_to_income_ratio, 500) \/ dec.recommendation # "APPROVED"),
              Row("F7", "bankruptcy_history",
                  ~IsTrue(d.bankruptcy_history) \/ dec.risk_level = "HIGH"),
              TemporalRow(CREDIT_POLICY.declaration_timestamp, dec.timestamp)>>
    IN  SealPoI(CREDIT_POLICY, results, now)

\* evaluateCredit(applicantData): timestamp read at t1, the later clock reads at t2
EvaluateCreditV2(d, t1, t2) ==
    LET timestamp == ToISOString(t1)
        loanType == DetectLoanType(d)
        riskScore == CalculateCreditRisk(d)
        cs == Dflt(d.credit_score, 650)
        dti == Dflt(d.debt_to_income, 30)
        income == Dflt(d.annual_income, 50000)
        loan == Dflt(d.loan_amount, 20000)
        empYears == Dflt(d.employment_years, 3)
        collateral == Dflt(d.collateral_ratio, 100)
        bankruptcy == IsTrue(d.bankruptcy_history)
        paymentHistory == Dflt(d.payment_history_score, 70)
        utilization == Dflt(d.credit_utilization, 30)
        \* lti = income > 0 ? loan / income : 99, kept exact for the comparison
        \* and rounded to hundredths for toFixed(2)
        ltiFixed == IF income > 0 THEN RoundDiv(100 * loan, income) ELSE 9900
        f1 == cs < 500
        rec1 == IF f1 THEN "DENIED" ELSE "APPROVED"
        f2 == dti > 50
        rec2 == IF f2 THEN "DENIED" ELSE rec1
        f3 == income < 20000
        risk3 == IF f3 THEN Soft("LOW", "LOW", "MEDIUM") ELSE "LOW"
        f4 == IF income > 0 THEN loan > 5 * income ELSE TRUE
        rec4 == IF f4 THEN Soft(rec2, "APPROVED", "MANUAL_REVIEW") ELSE rec2
        f5 == empYears < 1
        risk5 == IF f5 THEN Soft(risk3, "LOW", "MEDIUM") ELSE risk3
        f6 == loanType = "MORTGAGE" /\ collateral < 80
        rec6 == IF f6 THEN Soft(rec4, "APPROVED", "MANUAL_REVIEW") ELSE rec4
        f7 == bankruptcy
        risk7 == IF f7 THEN "HIGH" ELSE risk5
        f8 == paymentHistory < 40
        risk8 == IF f8 THEN Soft(risk7, "LOW", "MEDIUM") ELSE risk7
        f9 == utilization > 80
        risk9 == IF f9 THEN Soft(risk8, "LOW", "MEDIUM") ELSE risk8
        triggeredCount == CountTrue(<<f1, f2, f3, f4, f5, f6, f7, f8, f9>>)
        f10 == triggeredCount >= 3
        rec10 == MultiTrigger(triggeredCount, rec6, "APPROVED", "MANUAL_REVIEW")
        \* final adjustment
        recommendation == IF rec10 = "APPROVED" /\ risk9 = "HIGH" THEN "MANUAL_REVIEW" ELSE rec10
        allRules == <<Rule("F1", f1), Rule("F2", f2), Rule("F3", f3), Rule("F4", f4),
                      Rule("F5", f5), Rule("F6", f6), Rule("F7", f7), Rule("F8", f8),
                      Rule("F9", f9), Rule("F10", f10)>>
        dec == [recommendation |-> recommendation,
                risk_level |-> risk9,
                risk_score |-> riskScore,
                loan_type |-> loanType,
                interest_rate_tier |-> DetermineInterestTier(riskScore, cs),
                loan_to_income_ratio |-> ltiFixed,
                undercollateralized |-> f6,
                triggered_rules |-> triggeredCount,
                timestamp |-> timestamp,
                reasons |-> Pushed(SubSeq(allRules, 1, 9))
                            \o (IF f10 /\ rec6 = "APPROVED" THEN <<"F10">> ELSE <<>>),
                allRules |-> allRules]
        p_oo == GeneratePoO("PoO-CRD-", d, CREDIT_POLICY.policy_name, timestamp, t2)
        p_or == CreditGeneratePoR(d, dec)
        p_oi == CreditVerifyPoI(dec, d, t2)
    IN  [decision |-> dec,
         steps |-> [multi |-> "F10", before_multi |-> rec6, after_multi |-> rec10],
         poo |-> p_oo, por |-> p_or, poi |-> p_oi,
         bundle |-> CreateVerificationBundle("VB-CRD-", p_oo, p_or, p_oi, t2)]

---------------------------------------------------------------------------
(* The calls *)

None == <<>>

\* The engines keep nothing between two calls (every function builds its
\* result from its arguments and the clock), so a behaviour is one call made
\* in the state after the modules are loaded (op = "none").
\* Returned: the state after a call of an evaluate<Domain> function returned r
\* the entry of one call in history: the argument as passed and as it is after
\* the call, the clock readings, and what the call returned
Call(eng, fn, arg, after, reads, dec, p_oo, p_or, p_oi, bun) ==
    [engine |-> eng, op |-> fn, arg |-> arg, after |-> after, reads |-> reads,
     decision |-> dec, poo |-> p_oo, por |-> p_or, poi |-> p_oi, bundle |-> bun]

\* the input record if the evaluator stored its outcome flag in it
InputAfterTagged(d) == d @@ [evaluated |-> TRUE]

\* the caller's input record once evaluate has returned: the evaluators read
\* its fields into locals and assign to none of them
InputAfter(d) == d

\* the clock readings of one evaluate call in program order: the timestamp
\* on entry, then state_reference in generatePoO, verification_time in
\* verifyPoI, bundle_id and created_at in createVerificationBundle
Reads(t1, t2) == <<t1, t2, t2, t2, t2>>

\* where each of these readings is taken, relative to the evaluation of the rules
ReadPoints == <<"before the rules", "after the rules", "after the rules",
                "after the rules", "after the rules">>

Returned(eng, fn, data, r, reads) ==
    /\ clock' = reads
    /\ engine' = eng
    /\ op' = fn
    /\ input' = data
    /\ decision' = r.decision
    /\ steps' = r.steps
    /\ poo' = r.poo
    /\ por' = r.por
    /\ poi' = r.poi
    /\ bundle' = r.bundle
    /\ history' = Append(history, Call(eng, fn, data, InputAfter(data), reads, r.decision,
                                       r.poo, r.por, r.poi, r.bundle))
    /\ UNCHANGED <<pooLog, stream>>

EvaluateCredit(Inputs, Times) ==
    /\ op = "none"
    /\ \E d \in Inputs, t1 \in Times, t2 \in Times :
        /\ InstantLe(t1, t2)
        /\ Returned("credit-2.0", "evaluateCredit", d, EvaluateCreditV2(d, t1, t2), Reads(t1, t2))

---------------------------------------------------------------------------
(* Legal Compliance Engine v1.0  (src/server/legalEngine.js) *)

LEGAL_POLICY ==
    [policy_name |-> "Legal Compliance Assessment Protocol v1.0",
     version |-> "1.0.0",
     declaration_timestamp |-> DeclarationTimestamp,
     constraints |-> <<Constraint("L1", "mandatory"), Constraint("L2", "mandatory"),
                       Constraint("L3", "mandatory"), Constraint("L4", "mandatory"),
                       Constraint("L5", "mandatory"), Constraint("L6", "mandatory"),
                       Constraint("L7", "warning"), Constraint("L8", "mandatory"),
                       Constraint("L9", "warning"), Constraint("L10", "mandatory")>>]

DetectCaseType(d) ==
    IF d.case_type # "" THEN ToUpperCase(d.case_type)
    ELSE IF d.contract_validity # Undefined THEN "CONTRACT"
    ELSE IF d.liability_exposure # Undefined /\ d.liability_exposure > 50 THEN "LIABILITY"
    ELSE IF d.regulatory_compliance # Undefined THEN "REGULATORY"
    ELSE "GENERAL"

\* calculateLegalRisk, in units of 0.0001
CalculateLegalRisk(d) ==
    LET score == (100 - Clamp(0, 100, OrElse(d.contract_validity, 50))) * 20
                 + (100 - Clamp(0, 100, OrElse(d.regulatory_compliance, 50))) * 20
                 + Clamp(0, 100, OrElse(d.liability_exposure, 0)) * 20
                 + (100 - Clamp(0, 100, OrElse(d.evidence_score, 50))) * 15
                 + (100 - Clamp(0, 100, OrElse(d.precedent_alignment, 50))) * 15
                 + (IF d.jurisdiction_recognized = "false" THEN 1000 ELSE 0)
    IN  Clamp(0, 10000, score)

LegalGeneratePoR(d, dec) ==
    LET vertices ==
            <<Vertex("p1", "premise", <<"contract_validity", OrElse(d.contract_validity, 70)>>),
              Vertex("p2", "premise", <<"regulatory_compliance", OrElse(d.regulatory_compliance, 70)>>),
              Vertex("p3", "premise", <<"liability_exposure", OrElse(d.liability_exposure, 30)>>),
              Vertex("p4", "premise", <<"evidence_score", OrElse(d.evidence_score, 60)>>),
              Vertex("p5", "premise", <<"precedent_alignment", OrElse(d.precedent_alignment, 60)>>),
              Vertex("p6", "premise", <<"jurisdiction_recognized", NotFalse(d.jurisdiction_recognized)>>),
              Vertex("p7", "premise", <<"within_statute", NotFalse(d.within_statute)>>),
              Vertex("p8", "premise", <<"case_type", dec.case_type>>),
              Vertex("r1", "rule", <<"L1">>), Vertex("r2", "rule", <<"L2">>),
              Vertex("r3", "rule", <<"L3">>), Vertex("r4", "rule", <<"L4">>),
              Vertex("r5", "rule", <<"L5">>), Vertex("r6", "rule", <<"L6">>),
              Vertex("r7", "rule", <<"L8">>), Vertex("r8", "rule", <<"L10">>),
              Vertex("c1", "conclusion", <<"recommendation", dec.recommendation>>),
              Vertex("c2", "conclusion", <<"risk_level", dec.risk_level>>),
              Vertex("c3", "conclusion", <<"risk_score", dec.risk_score>>)>>
        edges ==
            <<<<"p1", "r1", "input">>, <<"p2", "r2", "input">>, <<"p3", "r3", "input">>,
              <<"p6", "r4", "input">>, <<"p7", "r5", "input">>, <<"p4", "r6", "input">>,
              <<"p5", "r7", "input">>,
              <<"r1", "c1", "determines">>, <<"r2", "c2", "influences">>,
              <<"r3", "c2", "determines">>, <<"r4", "c1", "determines">>,
              <<"r5", "c1", "determines">>, <<"r6", "c1", "influences">>,
              <<"r7", "c2", "influences">>, <<"r8", "c2", "influences">>,
              <<"c1", "c3", "produces">>, <<"c2", "c3", "produces">>>>
    IN  SealGraph(vertices, edges)

LegalVerifyPoI(dec, d, now) ==
    LET results ==
            <<Row("L1", "contract_validity",
                  OrElse(d.contract_validity, 70) >= 40 \/ dec.recommendation = "REJECTED"),
              Row("L2", "regulatory_compliance",
                  OrElse(d.regulatory_compliance, 70) >= 50 \/ dec.non_compliant = TRUE),
              Row("L3", "liability_threshold",
                  OrElse(d.liability_exposure, 30) <= 70 \/ dec.risk_level = "HIGH"),
              Row("L4", "jurisdiction_check",
                  NotFalse(d.jurisdiction_recognized) \/ dec.recommendation = "REJECTED"),
              Row("L5", "statute_of_limitations",
                  NotFalse(d.within_statute) \/ dec.recommendation = "REJECTED"),
              Row("L6", "evidence_sufficiency",
                  OrElse(d.evidence_score, 60) >= 30 \/ dec.recommendation # "APPROVED"),
              TemporalRow(LEGAL_POLICY.declaration_timestamp, dec.timestamp)>>
    IN  SealPoI(LEGAL_POLICY, results, now)

\* evaluateLegal(caseData)
EvaluateLegalV1(d, t1, t2) ==
    LET timestamp == ToISOString(t1)
        caseType == DetectCaseType(d)
        riskScore == CalculateLegalRisk(d)
        cv == Dflt(d.contract_validity, 70)
        rc == Dflt(d.regulatory_compliance, 70)
        le == Dflt(d.liability_exposure, 30)
        es == Dflt(d.evidence_score, 60)
        pa == Dflt(d.precedent_alignment, 60)
        jr == NotFalse(d.jurisdiction_recognized)
        sl == NotFalse(d.within_statute)
        ci == IsTrue(d.conflict_of_interest)
        fe == OrElse(d.financial_exposure, 0)
        feThreshold == OrElse(d.financial_threshold, 100000)
        l1 == cv < 40
        rec1 == IF l1 THEN "REJECTED" ELSE "APPROVED"
        l2 == rc < 50
        risk2 == IF l2 THEN Soft("LOW", "LOW", "MEDIUM") ELSE "LOW"
        l3 == le > 70
        risk3 == IF l3 THEN "HIGH" ELSE risk2
        l4 == ~jr
        rec4 == IF l4 THEN "REJECTED" ELSE rec1
        l5 == ~sl
        rec5 == IF l5 THEN "REJECTED" ELSE rec4
        l6 == es < 30
        rec6 == IF l6 THEN Soft(rec5, "APPROVED", "FURTHER_REVIEW") ELSE rec5
        l7 == ci
        l8 == pa < 40
        risk8 == IF l8 THEN Soft(risk3, "LOW", "MEDIUM") ELSE risk3
        l9 == fe > feThreshold
        triggeredCount == CountTrue(<<l1, l2, l3, l4, l5, l6, l7, l8, l9>>)
        l10 == triggeredCount >= 3
        risk10 == MultiTrigger(triggeredCount, risk8, "LOW", "MEDIUM")
        \* final recommendation adjustment based on risk
        recommendation == IF rec6 = "APPROVED" /\ risk10 = "HIGH" THEN "FURTHER_REVIEW" ELSE rec6
        allRules == <<Rule("L1", l1), Rule("L2", l2), Rule("L3", l3), Rule("L4", l4),
                      Rule("L5", l5), Rule("L6", l6), Rule("L7", l7), Rule("L8", l8),
                      Rule("L9", l9), Rule("L10", l10)>>
        dec == [recommendation |-> recommendation,
                risk_level |-> risk10,
                risk_score |-> riskScore,
                case_type |-> caseType,
                non_compliant |-> l2,
                conflict_flagged |-> l7,
                senior_review_required |-> l9,
                triggered_rules |-> triggeredCount,
                timestamp |-> timestamp,
                reasons |-> Pushed(SubSeq(allRules, 1, 9))
                            \o (IF l10 /\ risk8 = "LOW" THEN <<"L10">> ELSE <<>>),
                allRules |-> allRules]
        p_oo == GeneratePoO("PoO-LEG-", d, LEGAL_POLICY.policy_name, timestamp, t2)
        p_or == LegalGeneratePoR(d, dec)
        p_oi == LegalVerifyPoI(dec, d, t2)
    IN  [decision |-> dec,
         steps |-> [multi |-> "L10", before_multi |-> risk8, after_multi |-> risk10],
         poo |-> p_oo, por |-> p_or, poi |-> p_oi,
         bundle |-> CreateVerificationBundle("VB-LEG-", p_oo, p_or, p_oi, t2)]

EvaluateLegal(Inputs, Times) ==
    /\ op = "none"
    /\ \E d \in Inputs, t1 \in Times, t2 \in Times :
        /\ InstantLe(t1, t2)
        /\ Returned("legal-1.0", "evaluateLegal", d, EvaluateLegalV1(d, t1, t2), Reads(t1, t2))

---------------------------------------------------------------------------
(* Government Services Engine v1.0  (src/governmentEngine.js) *)

GOVERNMENT_POLICY ==
    [policy_name |-> "Government Service Assessment Protocol v1.0",
     version |-> "1.0.0",
     declaration_timestamp |-> DeclarationTimestamp,
     constraints |-> <<Constraint("G1", "mandatory"), Constraint("G2", "mandatory"),
                       Constraint("G3", "mandatory"), Constraint("G4", "mandatory"),
                       Constraint("G5", "mandatory"), Constraint("G6", "mandatory"),
                       Constraint("G7", "mandatory"), Constraint("G8", "warning"),
                       Constraint("G9", "mandatory"), Constraint("G10", "mandatory")>>]

DetectServiceType(d) ==
    IF d.service_type # "" THEN ToUpperCase(d.service_type)
    ELSE IF d.license_type # "" THEN "LICENSE"
    ELSE IF d.benefit_type # "" THEN "BENEFIT"
    ELSE IF d.permit_type # "" THEN "PERMIT"
    ELSE IF d.registration_type # "" THEN "REGISTRATION"
    ELSE "GENERAL"

\* calculateComplianceScore, in units of 0.0001
CalculateComplianceScore(d) ==
    LET score == (IF NotFalse(d.identity_verified) THEN 2000 ELSE 0)
                 + Clamp(0, 100, OrElse(d.eligibility_score, 50)) * 20
                 + Clamp(0, 100, OrElse(d.documentation_score, 50)) * 20
                 + (IF NotFalse(d.residency_verified) THEN 1500 ELSE 0)
                 + (IF NotFalse(d.tax_compliant) THEN 1500 ELSE 0)
                 + (IF IsTrue(d.criminal_flagged) THEN 0 ELSE 1000)
    IN  Clamp(0, 10000, score)

GovernmentGeneratePoR(d, dec) ==
    LET vertices ==
            <<Vertex("p1", "premise", <<"identity_verified", NotFalse(d.identity_verified)>>),
              Vertex("p2", "premise", <<"eligibility_score", OrElse(d.eligibility_score, 70)>>),
              Vertex("p3", "premise", <<"documentation_score", OrElse(d.documentation_score, 70)>>),
              Vertex("p4", "premise", <<"residency_verified", NotFalse(d.residency_verified)>>),
              Vertex("p5", "premise", <<"tax_compliant", NotFalse(d.tax_compliant)>>),
              Vertex("p6", "premise", <<"criminal_flagged", IsTrue(d.criminal_flagged)>>),
              Vertex("p7", "premise", <<"duplicate_detected", IsTrue(d.duplicate_detected)>>),
              Vertex("p8", "premise", <<"service_capacity", OrElse(d.service_capacity, 80)>>),
              Vertex("p9", "premise", <<"priority_group", IsTrue(d.priority_group)>>),
              Vertex("p10", "premise", <<"service_type", dec.service_type>>),
              Vertex("r1", "rule", <<"G1">>), Vertex("r2", "rule", <<"G2">>),
              Vertex("r3", "rule", <<"G3">>), Vertex("r4", "rule", <<"G4">>),
              Vertex("r5", "rule", <<"G5">>), Vertex("r6", "rule", <<"G6">>),
              Vertex("r7", "rule", <<"G7">>), Vertex("r8", "rule", <<"G9">>),
              Vertex("r9", "rule", <<"G10">>),
              Vertex("c1", "conclusion", <<"recommendation", dec.recommendation>>),
              Vertex("c2", "conclusion", <<"status", dec.status>>),
              Vertex("c3", "conclusion", <<"compliance_score", dec.compliance_score>>),
              Vertex("c4", "conclusion", <<"processing_priority", dec.processing_priority>>)>>
        edges ==
            <<<<"p1", "r1", "input">>, <<"p2", "r2", "input">>, <<"p3", "r3", "input">>,
              <<"p4", "r4", "input">>, <<"p5", "r5", "input">>, <<"p6", "r6", "input">>,
              <<"p7", "r7", "input">>, <<"p9", "r8", "input">>,
              <<"r1", "c1", "determines">>, <<"r2", "c1", "determines">>,
              <<"r3", "c2", "determines">>, <<"r4", "c1", "determines">>,
              <<"r5", "c1", "influences">>, <<"r6", "c1", "influences">>,
              <<"r7", "c1", "determines">>, <<"r8", "c4", "determines">>,
              <<"r9", "c1", "influences">>,
              <<"c1", "c3", "produces">>, <<"c2", "c3", "produces">>>>
    IN  SealGraph(vertices, edges)

GovernmentVerifyPoI(dec, d, now) ==
    LET resRequired == NotFalse(d.requires_residency)
        results ==
            <<Row("G1", "identity_verification",
                  NotFalse(d.identity_verified) \/ dec.recommendation = "REJECTED"),
              Row("G2", "eligibility_check",
                  OrElse(d.eligibility_score, 70) >= 40 \/ dec.recommendation = "REJECTED"),
              Row("G3", "documentation_completeness",
                  OrElse(d.documentation_score, 70) >= 50 \/ dec.status = "INCOMPLETE"),
              Row("G4", "residency_requirement",
                  NotFalse(d.residency_verified) \/ ~resRequired \/ dec.recommendation = "REJECTED"),
              Row("G5", "tax_compliance",
                  NotFalse(d.tax_compliant) \/ dec.tax_hold = TRUE),
              Row("G7", "duplicate_detection",
                  ~IsTrue(d.duplicate_detected) \/ dec.recommendation = "REJECTED"),
              TemporalRow(GOVERNMENT_POLICY.declaration_timestamp, dec.timestamp)>>
    IN  SealPoI(GOVERNMENT_POLICY, results, now)

\* evaluateGovernment(requestData)
EvaluateGovernmentV1(d, t1, t2) ==
    LET timestamp == ToISOString(t1)
        serviceType == DetectServiceType(d)
        complianceScore == CalculateComplianceScore(d)
        idVerified == NotFalse(d.identity_verified)
        eligScore == Dflt(d.eligibility_score, 70)
        docScore == Dflt(d.documentation_score, 70)
        resVerified == NotFalse(d.residency_verified)
        resRequired == NotFalse(d.requires_residency)
        taxCompliant == NotFalse(d.tax_compliant)
        crimFlagged == IsTrue(d.criminal_flagged)
        clearanceReq == IsTrue(d.requires_clearance)
        dupDetected == IsTrue(d.duplicate_detected)
        capacity == Dflt(d.service_capacity, 80)
        priorityGroup == IsTrue(d.priority_group)
        g1 == ~idVerified
        rec1 == IF g1 THEN "REJECTED" ELSE "APPROVED"
        g2 == eligScore < 40
        rec2 == IF g2 THEN "REJECTED" ELSE rec1
        g3 == docScore < 50
        rec3 == IF g3 THEN Soft(rec2, "APPROVED", "FURTHER_REVIEW") ELSE rec2
        g4 == ~resVerified /\ resRequired
        rec4 == IF g4 THEN "REJECTED" ELSE rec3
        g5 == ~taxCompliant
        rec5 == IF g5 THEN Soft(rec4, "APPROVED", "FURTHER_REVIEW") ELSE rec4
        g6 == crimFlagged /\ clearanceReq
        rec6 == IF g6 THEN Soft(rec5, "APPROVED", "FURTHER_REVIEW") ELSE rec5
        g7 == dupDetected
        rec7 == IF g7 THEN "REJECTED" ELSE rec6
        g8 == capacity < 20
        g9 == priorityGroup
        triggeredCount == CountTrue(<<g1, g2, g3, g4, g5, g6, g7, g8, g9>>)
        g10 == triggeredCount >= 3
        rec10 == MultiTrigger(triggeredCount, rec7, "APPROVED", "FURTHER_REVIEW")
        allRules == <<Rule("G1", g1), Rule("G2", g2), Rule("G3", g3), Rule("G4", g4),
                      Rule("G5", g5), Rule("G6", g6), Rule("G7", g7), Rule("G8", g8),
                      Rule("G9", g9), Rule("G10", g10)>>
        dec == [recommendation |-> rec10,
                status |-> IF g3 THEN "INCOMPLETE" ELSE "COMPLETE",
                compliance_score |-> complianceScore,
                service_type |-> serviceType,
                processing_priority |-> IF g9 THEN "ELEVATED" ELSE "STANDARD",
                tax_hold |-> g5,
                capacity_warning |-> g8,
                triggered_rules |-> triggeredCount,
                timestamp |-> timestamp,
                reasons |-> Pushed(SubSeq(allRules, 1, 9))
                            \o (IF g10 /\ rec7 = "APPROVED" THEN <<"G10">> ELSE <<>>),
                allRules |-> allRules]
        p_oo == GeneratePoO("PoO-GOV-", d, GOVERNMENT_POLICY.policy_name, timestamp, t2)
        p_or == GovernmentGeneratePoR(d, dec)
        p_oi == GovernmentVerifyPoI(dec, d, t2)
    IN  [decision |-> dec,
         steps |-> [multi |-> "G10", before_multi |-> rec7, after_multi |-> rec10],
         poo |-> p_oo, por |-> p_or, poi |-> p_oi,
         bundle |-> CreateVerificationBundle("VB-GOV-", p_oo, p_or, p_oi, t2)]

EvaluateGovernment(Inputs, Times) ==
    /\ op = "none"
    /\ \E d \in Inputs, t1 \in Times, t2 \in Times :
        /\ InstantLe(t1, t2)
        /\ Returned("government-1.0", "evaluateGovernment", d, EvaluateGovernmentV1(d, t1, t2), Reads(t1, t2))

---------------------------------------------------------------------------
(* Permit Engine v2.0  (the permitEngine.js written by src/01-postgres-setup.sh) *)

PERMIT_POLICY_V2 ==
    [policy_name |-> "Building & Operational Permit Protocol v2.0",
     version |-> "2.0.0",
     declaration_timestamp |-> DeclarationTimestamp,
     constraints |-> <<Constraint("P1", "mandatory"), Constraint("P2", "mandatory"),
                       Constraint("P3", "mandatory"), Constraint("P4", "mandatory"),
                       Constraint("P5", "mandatory"), Constraint("P6", "mandatory"),
                       Constraint("P7", "warning"), Constraint("P8", "mandatory"),
                       Constraint("P9", "warning"), Constraint("P10", "mandatory")>>]

DetectPermitType(d) ==
    IF d.permit_type # "" THEN ToUpperCase(d.permit_type)
    ELSE IF d.industrial_category # "" THEN "INDUSTRIAL"
    ELSE IF d.commercial_area # Undefined THEN "COMMERCIAL"
    ELSE IF d.renovation_scope # "" THEN "RENOVATION"
    ELSE IF d.infrastructure_class # "" THEN "INFRASTRUCTURE"
    ELSE "RESIDENTIAL"

\* the weights table of calculatePermitScore, in hundredths
PermitWeights(permitType) ==
    LET W(z, s, e, f, c, a, u, h) ==
            [zoning |-> z, structural |-> s, environmental |-> e, fire |-> f,
             coverage |-> c, accessibility |-> a, utility |-> u, heritage |-> h]
    IN  CASE permitType = "COMMERCIAL" -> W(20, 20, 15, 15, 10, 10, 5, 5)
          [] permitType = "INDUSTRIAL" -> W(15, 20, 25, 15, 10, 5, 5, 5)
          [] permitType = "INFRASTRUCTURE" -> W(15, 25, 20, 10, 5, 10, 10, 5)
          [] permitType = "RENOVATION" -> W(10, 25, 10, 15, 5, 5, 5, 25)
          [] OTHER -> W(20, 25, 15, 15, 10, 5, 5, 5)

\* calculatePermitScore, in units of 0.0001
CalculatePermitScore(d, permitType) ==
    LET w == PermitWeights(permitType)
        score == Clamp(0, 100, OrElse(d.zoning_compliance, 50)) * w.zoning
                 + Clamp(0, 100, OrElse(d.structural_safety, 50)) * w.structural
                 + (100 - Clamp(0, 100, OrElse(d.environmental_impact, 30))) * w.environmental
                 + Clamp(0, 100, OrElse(d.fire_safety_score, 50)) * w.fire
                 + (100 - Clamp(0, 100, OrElse(d.plot_coverage_ratio, 50))) * w.coverage
                 + Clamp(0, 100, OrElse(d.accessibility_score, 50)) * w.accessibility
                 + Clamp(0, 100, OrElse(d.utility_capacity, 50)) * w.utility
                 + (IF IsTrue(d.heritage_zone)
                    THEN Clamp(0, 100, OrElse(d.heritage_compliance, 50)) * w.heritage
                    ELSE 100 * w.heritage)
    IN  Clamp(0, 10000, score)

DeterminePermitClass(permitScore) ==
    IF permitScore >= 8500 THEN "CLASS_A"
    ELSE IF permitScore >= 7000 THEN "CLASS_B"
    ELSE IF permitScore >= 5500 THEN "CLASS_C"
    ELSE IF permitScore >= 4000 THEN "CONDITIONAL"
    ELSE "NON_COMPLIANT"

PermitV2GeneratePoR(d, dec) ==
    LET heritage == IsTrue(d.heritage_zone)
        vertices ==
            <<Vertex("p1", "premise", <<"zoning_compliance", OrElse(d.zoning_compliance, 70)>>),
              Vertex("p2", "premise", <<"structural_safety", OrElse(d.structural_safety, 70)>>),
              Vertex("p3", "premise", <<"environmental_impact", OrElse(d.environmental_impact, 30)>>),
              Vertex("p4", "premise", <<"fire_safety", OrElse(d.fire_safety_score, 70)>>),
              Vertex("p5", "premise", <<"plot_coverage", OrElse(d.plot_coverage_ratio, 50)>>),
              Vertex("p6", "premise", <<"accessibility", OrElse(d.accessibility_score, 60)>>),
              Vertex("p7", "premise", <<"utility_capacity", OrElse(d.utility_capacity, 60)>>),
              Vertex("p8", "premise", <<"permit_type", dec.permit_type>>),
              Vertex("r1", "rule", <<"P1">>), Vertex("r2", "rule", <<"P2">>),
              Vertex("r3", "rule", <<"P3">>), Vertex("r4", "rule", <<"P4">>),
              Vertex("r5", "rule", <<"P5">>), Vertex("r6", "rule", <<"P6">>),
              Vertex("r7", "rule", <<"P8">>), Vertex("r8", "rule", <<"P10">>),
              Vertex("c1", "conclusion", <<"recommendation", dec.recommendation>>),
              Vertex("c2", "conclusion", <<"permit_score", RoundDiv(dec.permit_score, 10)>>),
              Vertex("c3", "conclusion", <<"permit_class", dec.permit_class>>)>>
            \o (IF heritage
                THEN <<Vertex("p9", "premise", <<"heritage_zone", TRUE>>),
                       Vertex("p10", "premise",
                              <<"heritage_compliance", OrElse(d.heritage_compliance, 70)>>)>>
                ELSE <<>>)
        edges ==
            <<<<"p1", "r1", "input">>, <<"p2", "r2", "input">>, <<"p3", "r3", "input">>,
              <<"p4", "r4", "input">>, <<"p5", "r5", "input">>, <<"p6", "r6", "input">>,
              <<"r1", "c1", "determines">>, <<"r2", "c1", "determines">>,
              <<"r3", "c1", "influences">>, <<"r4", "c1", "influences">>,
              <<"r5", "c1", "influences">>, <<"r6", "c1", "influences">>,
              <<"r7", "c1", "determines">>, <<"r8", "c1", "determines">>,
              <<"c1", "c2", "produces">>, <<"c2", "c3", "determines">>>>
            \o (IF heritage
                THEN <<<<"p9", "r7", "input">>, <<"p10", "r7", "input">>>>
                ELSE <<>>)
    IN  SealGraph(vertices, edges)

PermitV2VerifyPoI(dec, d, now) ==
    LET zc == Dflt(d.zoning_compliance, 70)
        ss == Dflt(d.structural_safety, 70)
        results ==
            <<Row("P1", "zoning_compliance", zc >= 40 \/ dec.recommendation = "DENIED"),
              Row("P2", "structural_safety", ss >= 50 \/ dec.recommendation = "DENIED"),
              Row("P3", "environmental_impact",
                  OrElse(d.environmental_impact, 30) <= 70 \/ dec.environmental_review = TRUE),
              Row("P4", "fire_safety",
                  OrElse(d.fire_safety_score, 70) >= 50 \/ dec.recommendation # "APPROVED")>>
            \o (IF IsTrue(d.heritage_zone)
                THEN <<Row("P8", "heritage_protection",
                           OrElse(d.heritage_compliance, 70) >= 60 \/ dec.recommendation = "DENIED")>>
                ELSE <<>>)
            \o <<TemporalRow(PERMIT_POLICY_V2.declaration_timestamp, dec.timestamp)>>
    IN  SealPoI(PERMIT_POLICY_V2, results, now)

\* evaluatePermit(permitData) of v2.0
EvaluatePermitV2(d, t1, t2) ==
    LET timestamp == ToISOString(t1)
        permitType == DetectPermitType(d)
        permitScore == CalculatePermitScore(d, permitType)
        zc == Dflt(d.zoning_compliance, 70)
        ss == Dflt(d.structural_safety, 70)
        ei == Dflt(d.environmental_impact, 30)
        fs == Dflt(d.fire_safety_score, 70)
        pcr == Dflt(d.plot_coverage_ratio, 50)
        acc == Dflt(d.accessibility_score, 60)
        uc == Dflt(d.utility_capacity, 60)
        hz == IsTrue(d.heritage_zone)
        hc == Dflt(d.heritage_compliance, 70)
        ti == Dflt(d.traffic_impact, 30)
        p1 == zc < 40
        rec1 == IF p1 THEN "DENIED" ELSE "APPROVED"
        p2 == ss < 50
        rec2 == IF p2 THEN "DENIED" ELSE rec1
        p3 == ei > 70
        rec3 == IF p3 THEN Soft(rec2, "APPROVED", "CONDITIONAL_APPROVAL") ELSE rec2
        p4 == fs < 50
        rec4 == IF p4 THEN Soft(rec3, "APPROVED", "CONDITIONAL_APPROVAL") ELSE rec3
        p5 == pcr > 80
        rec5 == IF p5 THEN Soft(rec4, "APPROVED", "CONDITIONAL_APPROVAL") ELSE rec4
        p6 == acc < 40 /\ permitType # "RENOVATION"
        rec6 == IF p6 THEN Soft(rec5, "APPROVED", "CONDITIONAL_APPROVAL") ELSE rec5
        p7 == uc < 30
        p8 == hz /\ hc < 60
        rec8 == IF p8 THEN "DENIED" ELSE rec6
        p9 == ti > 70
        triggeredCount == CountTrue(<<p1, p2, p3, p4, p5, p6, p7, p8, p9>>)
        p10 == triggeredCount >= 3
        \* if (p10 && recommendation !== 'DENIED') recommendation = 'DENIED'
        rec10 == IF p10 /\ rec8 # "DENIED" THEN "DENIED" ELSE rec8
        allRules == <<Rule("P1", p1), Rule("P2", p2), Rule("P3", p3), Rule("P4", p4),
                      Rule("P5", p5), Rule("P6", p6), Rule("P7", p7), Rule("P8", p8),
                      Rule("P9", p9), Rule("P10", p10)>>
        dec == [recommendation |-> rec10,
                permit_score |-> permitScore,
                permit_class |-> DeterminePermitClass(permitScore),
                permit_type |-> permitType,
                environmental_review |-> p3,
                overcoverage |-> p5,
                utility_constraint |-> p7,
                traffic_study_required |-> p9,
                triggered_rules |-> triggeredCount,
                timestamp |-> timestamp,
                reasons |-> Pushed(SubSeq(allRules, 1, 9))
                            \o (IF p10 /\ rec8 # "DENIED" THEN <<"P10">> ELSE <<>>),
                allRules |-> allRules]
        p_oo == GeneratePoO("PoO-PRM-", d, PERMIT_POLICY_V2.policy_name, timestamp, t2)
        p_or == PermitV2GeneratePoR(d, dec)
        p_oi == PermitV2VerifyPoI(dec, d, t2)
    IN  [decision |-> dec,
         steps |-> [multi |-> "P10", before_multi |-> rec8, after_multi |-> rec10],
         poo |-> p_oo, por |-> p_or, poi |-> p_oi,
         bundle |-> CreateVerificationBundle("VB-PRM-", p_oo, p_or, p_oi, t2)]

EvaluatePermit2(Inputs, Times) ==
    /\ op = "none"
    /\ \E d \in Inputs, t1 \in Times, t2 \in Times :
        /\ InstantLe(t1, t2)
        /\ Returned("permit-2.0", "evaluatePermit", d, EvaluatePermitV2(d, t1, t2), Reads(t1, t2))

---------------------------------------------------------------------------
(* Hiring Engine v2.0  (src/unnamed/part_005, the hiringEngine.js section) *)

HIRING_POLICY_V2 ==
    [policy_name |-> "Employment Screening Protocol v2.0",
     version |-> "2.0.0",
     declaration_timestamp |-> DeclarationTimestamp,
     constraints |-> <<Constraint("H1", "mandatory"), Constraint("H2", "mandatory"),
                       Constraint("H3", "mandatory"), Constraint("H4", "mandatory"),
                       Constraint("H5", "mandatory"), Constraint("H6", "warning"),
                       Constraint("H7", "mandatory"), Constraint("H8", "warning"),
                       Constraint("H9", "mandatory"), Constraint("H10", "mandatory")>>]

DetectRoleCategory(d) ==
    IF d.role_category # "" THEN ToUpperCase(d.role_category)
    ELSE IF d.technical_score # Undefined THEN "TECHNICAL"
    ELSE IF d.leadership_score # Undefined THEN "EXECUTIVE"
    ELSE IF d.experience_years # Undefined /\ d.experience_years < 2 THEN "ENTRY_LEVEL"
    ELSE IF d.portfolio_score # Undefined THEN "CREATIVE"
    ELSE "OPERATIONS"

\* the weights table of calculateCompositeScore, in hundredths
HiringWeights(roleCategory) ==
    LET W(s, e, i, ed, r, c) ==
            [skill |-> s, experience |-> e, interview |-> i, education |-> ed,
             reference |-> r, cultural |-> c]
    IN  CASE roleCategory = "TECHNICAL" -> W(30, 20, 20, 10, 10, 10)
          [] roleCategory = "EXECUTIVE" -> W(15, 25, 25, 10, 15, 10)
          [] roleCategory = "CREATIVE" -> W(35, 10, 20, 5, 10, 20)
          [] roleCategory = "ENTRY_LEVEL" -> W(25, 5, 30, 15, 10, 15)
          [] OTHER -> W(25, 20, 20, 10, 10, 15)

\* calculateCompositeScore, in units of 0.0001: the terms are summed over the
\* common denominator 60 (experience / 15, (education - 1) / 4) and rounded
CalculateCompositeScore(d, roleCategory) ==
    LET w == HiringWeights(roleCategory)
        score == 60 * (Clamp(0, 100, OrElse(d.skill_match_score, 50)) * w.skill
                       + Clamp(0, 100, OrElse(d.interview_score, 50)) * w.interview
                       + Clamp(0, 100, OrElse(d.reference_score, 50)) * w.reference
                       + Clamp(0, 100, OrElse(d.cultural_fit_score, 50)) * w.cultural)
                 + 400 * Clamp(0, 15, OrElse(d.experience_years, 0)) * w.experience
                 + 1500 * Clamp(0, 4, OrElse(d.education_level, 3) - 1) * w.education
    IN  Clamp(0, 10000, RoundDiv(score, 60))

\* the tiers with every threshold one step higher
DetermineCandidateTierRaised(compositeScore) ==
    IF compositeScore >= 9500 THEN "EXCEPTIONAL"
    ELSE IF compositeScore >= 8500 THEN "STRONG"
    ELSE IF compositeScore >= 7500 THEN "QUALIFIED"
    ELSE IF compositeScore >= 5500 THEN "MARGINAL"
    ELSE "BELOW_THRESHOLD"

DetermineCandidateTier(compositeScore) ==
    IF compositeScore >= 8500 THEN "EXCEPTIONAL"
    ELSE IF compositeScore >= 7000 THEN "STRONG"
    ELSE IF compositeScore >= 5500 THEN "QUALIFIED"
    ELSE IF compositeScore >= 4000 THEN "MARGINAL"
    ELSE "BELOW_THRESHOLD"

HiringV2GeneratePoR(d, dec) ==
    LET vertices ==
            <<Vertex("p1", "premise", <<"skill_match", OrElse(d.skill_match_score, 50)>>),
              Vertex("p2", "premise", <<"experience_years", OrElse(d.experience_years, 3)>>),
              Vertex("p3", "premise", <<"interview_score", OrElse(d.interview_score, 50)>>),
              Vertex("p4", "premise", <<"reference_score", OrElse(d.reference_score, 50)>>),
              Vertex("p5", "premise", <<"education_level", OrElse(d.education_level, 3)>>),
              Vertex("p6", "premise", <<"cultural_fit", OrElse(d.cultural_fit_score, 50)>>),
              Vertex("p7", "premise", <<"role_category", dec.role_category>>),
              Vertex("p8", "premise", <<"background_flagged", IsTrue(d.background_flagged)>>),
              Vertex("r1", "rule", <<"H1">>), Vertex("r2", "rule", <<"H2">>),
              Vertex("r3", "rule", <<"H3">>), Vertex("r4", "rule", <<"H4">>),
              Vertex("r5", "rule", <<"H5">>), Vertex("r6", "rule", <<"H6">>),
              Vertex("r7", "rule", <<"H7">>), Vertex("r8", "rule", <<"H10">>),
              Vertex("c1", "conclusion", <<"recommendation", dec.recommendation>>),
              Vertex("c2", "conclusion", <<"composite_score", RoundDiv(dec.composite_score, 10)>>),
              Vertex("c3", "conclusion", <<"candidate_tier", dec.candidate_tier>>)>>
        edges ==
            <<<<"p1", "r1", "input">>, <<"p2", "r2", "input">>, <<"p7", "r2", "input">>,
              <<"p3", "r3", "input">>, <<"p4", "r4", "input">>, <<"p5", "r5", "input">>,
              <<"p6", "r6", "input">>, <<"p8", "r7", "input">>,
              <<"r1", "c1", "determines">>, <<"r2", "c1", "influences">>,
              <<"r3", "c1", "determines">>, <<"r4", "c1", "influences">>,
              <<"r5", "c1", "influences">>, <<"r6", "c1", "influences">>,
              <<"r7", "c1", "influences">>, <<"r8", "c1", "influences">>,
              <<"c1", "c2", "produces">>, <<"c2", "c3", "determines">>>>
    IN  SealGraph(vertices, edges)

HiringV2VerifyPoI(dec, d, now) ==
    LET skillScore == Dflt(d.skill_match_score, 50)
        interviewScore == Dflt(d.interview_score, 50)
        results ==
            <<Row("H1", "skill_threshold",
                  skillScore >= 30 \/ dec.recommendation = "NOT_RECOMMENDED"),
              Row("H3", "interview_floor",
                  interviewScore >= 30 \/ dec.recommendation = "NOT_RECOMMENDED"),
              Row("H4", "reference_check",
                  OrElse(d.reference_score, 50) >= 30 \/ dec.reference_concern = TRUE),
              Row("H7", "background_check",
                  ~IsTrue(d.background_flagged) \/ dec.recommendation # "RECOMMENDED"),
              TemporalRow(HIRING_POLICY_V2.declaration_timestamp, dec.timestamp)>>
    IN  SealPoI(HIRING_POLICY_V2, results, now)

\* evaluateCandidate(candidateData) of v2.0
EvaluateCandidateV2(d, t1, t2) ==
    LET timestamp == ToISOString(t1)
        roleCategory == DetectRoleCategory(d)
        compositeScore == CalculateCompositeScore(d, roleCategory)
        candidateTier == DetermineCandidateTier(compositeScore)
        skillScore == Dflt(d.skill_match_score, 50)
        expYears == Dflt(d.experience_years, 3)
        interviewScore == Dflt(d.interview_score, 50)
        refScore == Dflt(d.reference_score, 50)
        eduLevel == Dflt(d.education_level, 3)
        culturalFit == Dflt(d.cultural_fit_score, 50)
        backgroundFlagged == IsTrue(d.background_flagged)
        salaryExpect == OrElse(d.salary_expectation, 0)
        salaryBudget == OrElse(d.salary_budget, salaryExpect)
        requiresDegree == NotFalse(d.requires_degree)
        isSenior == d.role_level = "SENIOR" \/ expYears >= 8
        h1 == skillScore < 30
        rec1 == IF h1 THEN "NOT_RECOMMENDED" ELSE "RECOMMENDED"
        h2 == isSenior /\ expYears < 3
        rec2 == IF h2 THEN Soft(rec1, "RECOMMENDED", "FURTHER_REVIEW") ELSE rec1
        h3 == interviewScore < 30
        rec3 == IF h3 THEN "NOT_RECOMMENDED" ELSE rec2
        h4 == refScore < 30
        rec4 == IF h4 THEN Soft(rec3, "RECOMMENDED", "FURTHER_REVIEW") ELSE rec3
        h5 == requiresDegree /\ eduLevel < 3
        rec5 == IF h5 THEN Soft(rec4, "RECOMMENDED", "FURTHER_REVIEW") ELSE rec4
        h6 == culturalFit < 30
        h7 == backgroundFlagged
        rec7 == IF h7 THEN Soft(rec5, "RECOMMENDED", "FURTHER_REVIEW") ELSE rec5
        \* salaryExpect > salaryBudget * 1.2
        h8 == salaryBudget > 0 /\ 5 * salaryExpect > 6 * salaryBudget
        h9 == IsTrue(d.diversity_enabled)
        triggeredCount == CountTrue(<<h1, h2, h3, h4, h5, h6, h7, h8>>)
        h10 == triggeredCount >= 3
        rec10 == MultiTrigger(triggeredCount, rec7, "RECOMMENDED", "FURTHER_REVIEW")
        \* tier safety check
        rec11 == IF rec10 = "RECOMMENDED" /\ candidateTier = "BELOW_THRESHOLD"
                 THEN "NOT_RECOMMENDED" ELSE rec10
        recommendation == IF rec11 = "RECOMMENDED" /\ candidateTier = "MARGINAL"
                          THEN "FURTHER_REVIEW" ELSE rec11
        allRules == <<Rule("H1", h1), Rule("H2", h2), Rule("H3", h3), Rule("H4", h4),
                      Rule("H5", h5), Rule("H6", h6), Rule("H7", h7), Rule("H8", h8),
                      Rule("H9", h9), Rule("H10", h10)>>
        dec == [recommendation |-> recommendation,
                composite_score |-> compositeScore,
                candidate_tier |-> candidateTier,
                role_category |-> roleCategory,
                reference_concern |-> h4,
                cultural_mismatch |-> h6,
                budget_exceed |-> h8,
                triggered_rules |-> triggeredCount,
                timestamp |-> timestamp,
                reasons |-> Pushed(SubSeq(allRules, 1, 9))
                            \o (IF h10 /\ rec7 = "RECOMMENDED" THEN <<"H10">> ELSE <<>>),
                allRules |-> allRules]
        p_oo == GeneratePoO("PoO-HIR-", d, HIRING_POLICY_V2.policy_name, timestamp, t2)
        p_or == HiringV2GeneratePoR(d, dec)
        p_oi == HiringV2VerifyPoI(dec, d, t2)
    IN  [decision |-> dec,
         steps |-> [multi |-> "H10", before_multi |-> rec7, after_multi |-> rec10],
         poo |-> p_oo, por |-> p_or, poi |-> p_oi,
         bundle |-> CreateVerificationBundle("VB-HIR-", p_oo, p_or, p_oi, t2)]

EvaluateCandidate2(Inputs, Times) ==
    /\ op = "none"
    /\ \E d \in Inputs, t1 \in Times, t2 \in Times :
        /\ InstantLe(t1, t2)
        /\ Returned("hiring-2.0", "evaluateCandidate", d, EvaluateCandidateV2(d, t1, t2), Reads(t1, t2))

---------------------------------------------------------------------------
(* Medical Triage Engine v3.0  (src/unnamed/part_003) *)

\* a value used as a condition: true and any other truthy value a caller
\* may send ("yes" stands for a non-boolean truthy value)
Truthy(x) == x \in {"true", "yes"}

WarningRow(id, name, satisfied, triggered) ==
    [constraint |-> <<id, name>>, satisfied |-> satisfied, triggered |-> triggered,
     severity |-> "warning"]

MEDICAL_POLICY ==
    [policy_name |-> "Emergency Triage Protocol v3.0",
     version |-> "3.0.0",
     declaration_timestamp |-> DeclarationTimestamp,
     constraints |-> <<Constraint("C1", "mandatory"), Constraint("C2", "mandatory"),
                       Constraint("C3", "warning"), Constraint("C4", "mandatory"),
                       Constraint("C5", "mandatory"), Constraint("C6", "mandatory"),
                       Constraint("C7", "mandatory"), Constraint("C8", "mandatory"),
                       Constraint("C9", "warning"), Constraint("C10", "mandatory")>>]

DetectCategory(d) ==
    IF d.category # "" THEN ToUpperCase(d.category)
    ELSE IF OrElse(d.trauma_score, 0) # 0 /\ d.trauma_score >= 50 THEN "TRAUMA"
    ELSE IF Truthy(d.is_pregnant) \/ OrElse(d.pregnancy_week, 0) # 0 THEN "MATERNAL"
    ELSE IF Lt(d.age, 12) THEN "PEDIATRIC"
    ELSE IF Ge(d.age, 65) THEN "GERIATRIC"
    ELSE "GENERAL"

\* calculateRiskScore, in units of 0.0001; NaN when vital_score is missing
\* (Math.max(0, undefined) is NaN and NaN survives every later step)
CalculateRiskScore(d, category) ==
    LET ageTerm == IF Lt(d.age, 5) THEN 1350
                   ELSE IF Lt(d.age, 12) THEN 750
                   ELSE IF Ge(d.age, 80) THEN 1350
                   ELSE IF Ge(d.age, 65) THEN 900
                   ELSE 300
        wait == OrElse(d.wait_time, 0)
        score == 3 * ((100 - Clamp(0, 100, d.vital_score)) * 30
                      + ageTerm
                      + Clamp(0, 100, OrElse(d.comorbidity_index, 0)) * 20
                      + (100 - Clamp(0, 100, OrElse(d.resource_score, 50))) * 10
                      + (IF category = "TRAUMA"
                         THEN Clamp(0, 100, OrElse(d.trauma_score, 0)) * 15 ELSE 0)
                      + (IF category = "MATERNAL" /\ Truthy(d.complications) THEN 1500 ELSE 0)
                      + (IF category = "PEDIATRIC" /\ Lt(d.vital_score, 60) THEN 1000 ELSE 0))
                 + (IF wait > 120 THEN 120 ELSE wait) * 25
    IN  IF ~IsNum(d.vital_score) THEN NaN ELSE Clamp(0, 10000, RoundDiv(score, 3))

MedicalGeneratePoR(d, dec) ==
    LET category == IF dec.category = "" THEN "GENERAL" ELSE dec.category
        vertices ==
            <<Vertex("p1", "premise", <<"vital_score", d.vital_score>>),
              Vertex("p2", "premise", <<"wait_time", d.wait_time>>),
              Vertex("p3", "premise", <<"age", d.age>>),
              Vertex("p4", "premise", <<"comorbidity_index", OrElse(d.comorbidity_index, 0)>>),
              Vertex("p5", "premise", <<"resource_score", OrElse(d.resource_score, 50)>>),
              Vertex("p6", "premise", <<"category", category>>),
              Vertex("r1", "rule", <<"C1">>), Vertex("r2", "rule", <<"R-URGENCY">>),
              Vertex("r3", "rule", <<"R-AGE">>), Vertex("r4", "rule", <<"R-COMORBID">>),
              Vertex("r5", "rule", <<"C5">>), Vertex("r6", "rule", <<"C6">>),
              Vertex("r7", "rule", <<"C7">>), Vertex("r8", "rule", <<"C10">>),
              Vertex("c1", "conclusion", <<"critical", dec.critical>>),
              Vertex("c2", "conclusion", <<"urgency", dec.urgency>>),
              Vertex("c3", "conclusion", <<"priority", dec.priority>>),
              Vertex("c4", "conclusion", <<"risk_score", dec.risk_score>>)>>
            \o (IF category = "TRAUMA"
                THEN <<Vertex("p7", "premise", <<"trauma_score", OrElse(d.trauma_score, 0)>>)>>
                ELSE <<>>)
            \o (IF category = "MATERNAL"
                THEN <<Vertex("p8", "premise", <<"complications", d.complications>>),
                       Vertex("r9", "rule", <<"C8">>)>>
                ELSE <<>>)
        edges ==
            <<<<"p1", "r1", "input">>, <<"r1", "c1", "entails">>, <<"c1", "r2", "input">>,
              <<"p2", "r2", "input">>, <<"r2", "c2", "entails">>, <<"p3", "r3", "input">>,
              <<"p4", "r4", "input">>, <<"p3", "r5", "input">>, <<"p1", "r5", "input">>,
              <<"p3", "r6", "input">>, <<"p4", "r6", "input">>,
              <<"c1", "c3", "determines">>, <<"c2", "c3", "determines">>,
              <<"r3", "c3", "influences">>, <<"r4", "c3", "influences">>,
              <<"r8", "c3", "influences">>, <<"c3", "c4", "produces">>>>
            \o (IF category = "TRAUMA"
                THEN <<<<"p7", "r7", "input">>, <<"r7", "c3", "determines">>>>
                ELSE <<>>)
            \o (IF category = "MATERNAL"
                THEN <<<<"p8", "r9", "input">>, <<"p6", "r9", "input">>,
                       <<"r9", "c3", "determines">>>>
                ELSE <<>>)
    IN  SealGraph(vertices, edges)

MedicalVerifyPoI(dec, d, now) ==
    LET c3_triggered == Gt(d.wait_time, 60)
        results ==
            <<Row("C1", "vital_priority", Ge(d.vital_score, 50) \/ dec.priority = "HIGH"),
              WarningRow("C3", "max_wait",
                         Le(d.wait_time, 60) \/ dec.reassessment = TRUE, c3_triggered)>>
            \o (IF Lt(d.age, 12)
                THEN <<Row("C5", "pediatric_priority",
                           Ge(d.vital_score, 60) \/ dec.priority # "LOW")>>
                ELSE <<>>)
            \o (IF Ge(d.age, 65)
                THEN <<Row("C6", "geriatric_caution",
                           OrElse(d.comorbidity_index, 0) < 50 \/ dec.priority # "LOW")>>
                ELSE <<>>)
            \o (IF OrElse(d.trauma_score, 0) >= 70
                THEN <<Row("C7", "trauma_escalation", dec.priority = "HIGH")>>
                ELSE <<>>)
            \o (IF dec.category = "MATERNAL" /\ Truthy(d.complications)
                THEN <<Row("C8", "maternal_safety", dec.priority = "HIGH")>>
                ELSE <<>>)
            \o (IF OrElse(d.resource_score, 50) < 30
                THEN <<[constraint |-> <<"C9", "resource_constraint">>,
                        satisfied |-> dec.resource_alert = TRUE,
                        severity |-> "warning"]>>
                ELSE <<>>)
            \o <<TemporalRow(MEDICAL_POLICY.declaration_timestamp, dec.timestamp)>>
    IN  SealPoI(MEDICAL_POLICY, results, now)

\* evaluateMedical(patientData)
EvaluateMedicalV3(d, t1, t2) ==
    LET timestamp == ToISOString(t1)
        category == DetectCategory(d)
        riskScore == CalculateRiskScore(d, category)
        c1 == Lt(d.vital_score, 50)
        critical1 == c1
        pri1 == IF c1 THEN "HIGH" ELSE "LOW"
        rAge == Ge(d.age, 65)
        pri2 == IF rAge /\ pri1 # "HIGH" THEN "MEDIUM" ELSE pri1
        rComorbid == OrElse(d.comorbidity_index, 0) >= 60
        pri3 == IF rComorbid /\ pri2 # "HIGH" THEN "MEDIUM" ELSE pri2
        \* evaluated here, before C7 and C8 can set critical
        rUrgency == critical1 /\ Gt(d.wait_time, 30)
        c3 == Gt(d.wait_time, 60)
        c5 == Lt(d.age, 12) /\ Lt(d.vital_score, 60)
        pri5 == IF c5 THEN Soft(pri3, "LOW", "MEDIUM") ELSE pri3
        c6 == Ge(d.age, 65) /\ OrElse(d.comorbidity_index, 0) >= 50
        pri6 == IF c6 THEN Soft(pri5, "LOW", "MEDIUM") ELSE pri5
        c7 == OrElse(d.trauma_score, 0) >= 70
        pri7 == IF c7 THEN "HIGH" ELSE pri6
        c8 == category = "MATERNAL" /\ IsTrue(d.complications)
        pri8 == IF c8 THEN "HIGH" ELSE pri7
        critical == critical1 \/ c7 \/ c8
        c9 == OrElse(d.resource_score, 50) < 30
        triggeredCount == CountTrue(<<c1, rAge, rComorbid, rUrgency, c3, c5, c6, c7, c8, c9>>)
        c10 == triggeredCount >= 3
        pri10 == MultiTrigger(triggeredCount, pri8, "LOW", "MEDIUM")
        allRules == <<Rule("C1", c1), Rule("R-AGE", rAge), Rule("R-COMORBID", rComorbid),
                      Rule("R-URGENCY", rUrgency), Rule("C3", c3), Rule("C5", c5),
                      Rule("C6", c6), Rule("C7", c7), Rule("C8", c8), Rule("C9", c9),
                      Rule("C10", c10)>>
        dec == [priority |-> pri10,
                critical |-> critical,
                urgency |-> IF rUrgency THEN "IMMEDIATE" ELSE "STANDARD",
                reassessment |-> c3,
                resource_alert |-> c9,
                category |-> category,
                risk_score |-> riskScore,
                triggered_rules |-> triggeredCount,
                timestamp |-> timestamp,
                reasons |-> Pushed(SubSeq(allRules, 1, 10))
                            \o (IF c10 /\ pri8 = "LOW" THEN <<"C10">> ELSE <<>>),
                allRules |-> allRules]
        p_oo == GeneratePoO("PoO-MED-", d, MEDICAL_POLICY.policy_name, timestamp, t2)
        p_or == MedicalGeneratePoR(d, dec)
        p_oi == MedicalVerifyPoI(dec, d, t2)
    IN  [decision |-> dec,
         steps |-> [multi |-> "C10", before_multi |-> pri8, after_multi |-> pri10],
         poo |-> p_oo, por |-> p_or, poi |-> p_oi,
         bundle |-> CreateVerificationBundle("VB-MED-", p_oo, p_or, p_oi, t2)]

EvaluateMedical(Inputs, Times) ==
    /\ op = "none"
    /\ \E d \in Inputs, t1 \in Times, t2 \in Times :
        /\ InstantLe(t1, t2)
        /\ Returned("medical-3.0", "evaluateMedical", d, EvaluateMedicalV3(d, t1, t2), Reads(t1, t2))

---------------------------------------------------------------------------
(* Triage Engine v2.1  (src/server/triageEngine.js) *)

TRIAGE_POLICY ==
    [policy_name |-> "Emergency Triage Protocol v2.1",
     version |-> "",
     declaration_timestamp |-> DeclarationTimestamp,
     constraints |-> <<Constraint("C1", "mandatory"), Constraint("C2", "mandatory"),
                       Constraint("C3", "warning"), Constraint("C4", "mandatory")>>]

CalculateDeltaLogic(d, dec) ==
    (IF Lt(d.vital_score, 50) THEN <<"C1">> ELSE <<>>)
    \o (IF Ge(d.age, 65) THEN <<"age_risk">> ELSE <<>>)
    \o (IF Ge(d.comorbidity_index, 60) THEN <<"comorbidity">> ELSE <<>>)
    \o (IF Lt(d.vital_score, 50) /\ Gt(d.wait_time, 30) THEN <<"urgency">> ELSE <<>>)
    \o (IF Gt(d.wait_time, 60) THEN <<"C3">> ELSE <<>>)

TriageGeneratePoR(d, dec) ==
    LET critical == Lt(d.vital_score, 50)
        urgency == IF critical /\ Gt(d.wait_time, 30) THEN "IMMEDIATE" ELSE "STANDARD"
        vertices ==
            <<Vertex("p1", "premise", <<"vital_score", d.vital_score>>),
              Vertex("p2", "premise", <<"wait_time", d.wait_time>>),
              Vertex("p3", "premise", <<"age", d.age>>),
              Vertex("p4", "premise", <<"comorbidity_index", d.comorbidity_index>>),
              Vertex("p5", "premise", <<"resource_score", d.resource_score>>),
              Vertex("r1", "rule", <<"C1">>), Vertex("r2", "rule", <<"R-URGENCY">>),
              Vertex("r3", "rule", <<"R-AGE">>), Vertex("r4", "rule", <<"R-COMORBID">>),
              Vertex("c1", "conclusion", <<"critical", critical>>),
              Vertex("c2", "conclusion", <<"urgency", urgency>>),
              Vertex("c3", "conclusion", <<"priority", dec.priority>>)>>
        edges ==
            <<<<"p1", "r1", "input">>, <<"r1", "c1", "entails">>, <<"c1", "r2", "input">>,
              <<"p2", "r2", "input">>, <<"r2", "c2", "entails">>, <<"p3", "r3", "input">>,
              <<"p4", "r4", "input">>, <<"c1", "c3", "determines">>,
              <<"c2", "c3", "determines">>>>
        sealed == SealGraph(vertices, edges)
    IN  [graph |-> sealed.graph,
         delta_logic |-> [steps |-> CalculateDeltaLogic(d, dec)],
         hash |-> sealed.hash,
         signature |-> sealed.signature]

TriageVerifyPoI(dec, d, now) ==
    LET c1_satisfied == Ge(d.vital_score, 50) \/ dec.priority = "HIGH"
        c3_satisfied == Le(d.wait_time, 60) \/ dec.reassessment = TRUE
        c3_triggered == Gt(d.wait_time, 60)
        results ==
            <<Row("C1", "vital_priority", c1_satisfied),
              WarningRow("C3", "max_wait", c3_satisfied, c3_triggered),
              TemporalRow(TRIAGE_POLICY.declaration_timestamp, dec.timestamp)>>
    IN  SealPoI(TRIAGE_POLICY, results, now)

\* triageDecision(patientData) of v2.1
TriageDecisionV2(d, t1, t2) ==
    LET timestamp == ToISOString(t1)
        c1 == Lt(d.vital_score, 50)
        critical == c1
        pri1 == IF c1 THEN "HIGH" ELSE "LOW"
        rAge == Ge(d.age, 65)
        pri2 == IF rAge /\ pri1 # "HIGH" THEN "MEDIUM" ELSE pri1
        rComorbid == Ge(d.comorbidity_index, 60)
        priority == IF rComorbid /\ pri2 # "HIGH" THEN "MEDIUM" ELSE pri2
        rUrgency == critical /\ Gt(d.wait_time, 30)
        c3 == Gt(d.wait_time, 60)
        allRules == <<Rule("C1", c1), Rule("R-AGE", rAge), Rule("R-COMORBID", rComorbid),
                      Rule("R-URGENCY", rUrgency), Rule("C3", c3)>>
        dec == [priority |-> priority,
                critical |-> critical,
                urgency |-> IF rUrgency THEN "IMMEDIATE" ELSE "STANDARD",
                reassessment |-> c3,
                timestamp |-> timestamp,
                reasons |-> Pushed(allRules),
                allRules |-> allRules]
        p_oo == GeneratePoO("PoO-", d, "triage_protocol_v2.1", timestamp, t2)
        p_or == TriageGeneratePoR(d, dec)
        p_oi == TriageVerifyPoI(dec, d, t2)
    IN  [decision |-> dec,
         steps |-> [multi |-> "none", before_multi |-> priority, after_multi |-> priority],
         poo |-> p_oo, por |-> p_or, poi |-> p_oi,
         bundle |-> CreateVerificationBundle("VB-", p_oo, p_or, p_oi, t2)]

TriageDecision(Inputs, Times) ==
    /\ op = "none"
    /\ \E d \in Inputs, t1 \in Times, t2 \in Times :
        /\ InstantLe(t1, t2)
        /\ Returned("triage-2.1", "triageDecision", d, TriageDecisionV2(d, t1, t2), Reads(t1, t2))

---------------------------------------------------------------------------
(* Permit Engine v1.0  (src/server/permitEngine.js) *)

PERMIT_POLICY ==
    [policy_name |-> "Municipal Building Permit Policy v1.0",
     version |-> "",
     declaration_timestamp |-> DeclarationTimestamp,
     constraints |-> <<Constraint("G1", "mandatory"), Constraint("G2", "mandatory"),
                       Constraint("G3", "mandatory"), Constraint("G4", "mandatory"),
                       Constraint("G5", "warning")>>]

\* Temporal Precedence as the v1.0 engines compute it:
\* declaration_timestamp < (decision.timestamp || new Date().toISOString())
TemporalRowOrNow(declaration, timestamp, now) ==
    TemporalRow(declaration, IF timestamp = <<>> THEN ToISOString(now) ELSE timestamp)

ZoningStatus(z) ==
    IF Lt(z, 50) THEN "NON_COMPLIANT" ELSE IF Lt(z, 75) THEN "PARTIAL_COMPLIANCE" ELSE "COMPLIANT"
SafetyStatus(s) ==
    IF Lt(s, 60) THEN "UNSAFE" ELSE IF Lt(s, 80) THEN "ACCEPTABLE" ELSE "SAFE"
\* environmental_impact read as a score where higher is better
EnvStatusInverted(e) ==
    IF Lt(e, 30) THEN "HIGH_IMPACT" ELSE IF Lt(e, 60) THEN "MODERATE_IMPACT" ELSE "LOW_IMPACT"
EnvStatus(e) ==
    IF Gt(e, 70) THEN "HIGH_IMPACT" ELSE IF Gt(e, 40) THEN "MODERATE_IMPACT" ELSE "LOW_IMPACT"
FireStatus(f) ==
    IF Lt(f, 50) THEN "NON_COMPLIANT" ELSE "COMPLIANT"

PermitV1GeneratePoR(params, dec) ==
    LET zoning_status == ZoningStatus(params.zoning_compliance)
        safety_status == SafetyStatus(params.structural_safety)
        env_status == EnvStatus(params.environmental_impact)
        vertices ==
            <<Vertex("p1", "premise", <<"zoning", params.zoning_compliance>>),
              Vertex("p2", "premise", <<"structural", params.structural_safety>>),
              Vertex("p3", "premise", <<"env_impact", params.environmental_impact>>),
              Vertex("p4", "premise", <<"coverage", params.plot_coverage_ratio>>),
              Vertex("p5", "premise", <<"fire_safety", params.fire_safety_score>>),
              Vertex("r1", "rule", <<"P1">>), Vertex("r2", "rule", <<"P2">>),
              Vertex("r3", "rule", <<"P3">>), Vertex("r4", "rule", <<"P5">>),
              Vertex("r5", "rule", <<"P6">>),
              Vertex("c1", "conclusion", <<"zoning_status", zoning_status>>),
              Vertex("c2", "conclusion", <<"safety_status", safety_status>>),
              Vertex("c3", "conclusion", <<"recommendation", dec.recommendation>>)>>
        edges ==
            <<<<"p1", "r1", "input">>, <<"r1", "c1", "entails">>, <<"p2", "r2", "input">>,
              <<"r2", "c2", "entails">>, <<"p3", "r3", "input">>, <<"p5", "r4", "input">>,
              <<"c1", "r5", "input">>, <<"c2", "r5", "input">>, <<"r5", "c3", "entails">>>>
        sealed == SealGraph(vertices, edges)
    IN  [graph |-> sealed.graph,
         delta_logic |-> [steps |-> <<<<"P1", zoning_status>>, <<"P2", safety_status>>,
                                      <<"P3", env_status>>, <<"P6", dec.recommendation>>>>],
         hash |-> sealed.hash,
         signature |-> sealed.signature]

PermitV1VerifyPoI(dec, params, now) ==
    LET g1_satisfied == Ge(params.zoning_compliance, 50) \/ dec.recommendation = "DENIED"
        g2_satisfied == Ge(params.structural_safety, 60) \/ dec.recommendation = "DENIED"
        g3_satisfied == Le(params.environmental_impact, 70) \/ dec.recommendation = "DENIED"
        g4_satisfied == Ge(params.fire_safety_score, 50) \/ dec.recommendation = "DENIED"
        g5_triggered == Gt(params.plot_coverage_ratio, 60)
        results ==
            <<Row("G1", "zoning_minimum", g1_satisfied),
              Row("G2", "structural_safety_floor", g2_satisfied),
              Row("G3", "environmental_protection", g3_satisfied),
              Row("G4", "fire_safety_minimum", g4_satisfied),
              WarningRow("G5", "coverage_warning", TRUE, g5_triggered),
              TemporalRowOrNow(PERMIT_POLICY.declaration_timestamp, dec.timestamp, now)>>
    IN  SealPoI(PERMIT_POLICY, results, now)

\* evaluatePermit(params) of v1.0; permit_score of the decision is in hundredths
EvaluatePermitV1(d, t1, t2) ==
    LET timestamp == ToISOString(t1)
        zoning_compliance == Number(d.zoning_compliance)
        structural_safety == Number(d.structural_safety)
        environmental_impact == Number(d.environmental_impact)
        plot_coverage_ratio == Number(d.plot_coverage_ratio)
        fire_safety_score == Number(d.fire_safety_score)
        params == [zoning_compliance |-> zoning_compliance,
                   structural_safety |-> structural_safety,
                   environmental_impact |-> environmental_impact,
                   plot_coverage_ratio |-> plot_coverage_ratio,
                   fire_safety_score |-> fire_safety_score]
        zoning_status == ZoningStatus(zoning_compliance)
        safety_status == SafetyStatus(structural_safety)
        env_status == EnvStatus(environmental_impact)
        coverage_status == IF Gt(plot_coverage_ratio, 80) THEN "EXCEEDED"
                           ELSE IF Gt(plot_coverage_ratio, 60) THEN "HIGH" ELSE "OK"
        fire_status == FireStatus(fire_safety_score)
        allNum == \A x \in {zoning_compliance, structural_safety, environmental_impact,
                            plot_coverage_ratio, fire_safety_score} : IsNum(x)
        \* in units of 0.0001; NaN as soon as one operand is NaN
        permit_score == IF allNum
                        THEN zoning_compliance * 25 + structural_safety * 25
                             + (100 - environmental_impact) * 20
                             + (100 - (IF plot_coverage_ratio > 100 THEN 100
                                       ELSE plot_coverage_ratio)) * 15
                             + fire_safety_score * 15
                        ELSE NaN
        permit_clamped == IF allNum THEN Clamp(0, 10000, permit_score) ELSE NaN
        hardFail == \/ zoning_status = "NON_COMPLIANT" \/ safety_status = "UNSAFE"
                    \/ env_status = "HIGH_IMPACT" \/ fire_status = "NON_COMPLIANT"
        recommendation == IF hardFail THEN "DENIED"
                          ELSE IF Ge(permit_clamped, 7000) THEN "APPROVED"
                          ELSE IF Ge(permit_clamped, 5000) THEN "CONDITIONAL_APPROVAL"
                          ELSE "DENIED"
        class0 == IF Ge(permit_clamped, 8000) THEN "A"
                  ELSE IF Ge(permit_clamped, 6500) THEN "B"
                  ELSE IF Ge(permit_clamped, 5000) THEN "C"
                  ELSE "D"
        allRules == <<Rule("G1", Lt(zoning_compliance, 50)),
                      Rule("G2", Lt(structural_safety, 60)),
                      Rule("G3", Gt(environmental_impact, 70)),
                      Rule("G4", Lt(fire_safety_score, 50)),
                      Rule("G5", Gt(plot_coverage_ratio, 60)),
                      Rule("P1", zoning_status # "COMPLIANT"),
                      Rule("P2", safety_status # "SAFE"),
                      Rule("P3", env_status # "LOW_IMPACT"),
                      Rule("P6", TRUE)>>
        reasons == Pushed(SubSeq(allRules, 1, 4))
                   \o (IF zoning_status = "PARTIAL_COMPLIANCE" /\ recommendation # "DENIED"
                       THEN <<"P1">> ELSE <<>>)
                   \o (IF safety_status = "ACCEPTABLE" /\ recommendation # "DENIED"
                       THEN <<"P2">> ELSE <<>>)
                   \o (IF env_status = "MODERATE_IMPACT" THEN <<"P3">> ELSE <<>>)
                   \o (IF coverage_status # "OK" THEN <<"P4">> ELSE <<>>)
                   \o (IF recommendation # "DENIED" \/ ~hardFail THEN <<"P6">> ELSE <<>>)
        dec == [recommendation |-> recommendation,
                permit_score |-> IF allNum THEN RoundDiv(permit_clamped, 100) ELSE NaN,
                permit_class |-> IF recommendation = "DENIED" THEN "D" ELSE class0,
                timestamp |-> timestamp,
                reasons |-> reasons,
                allRules |-> allRules]
        p_oo == GeneratePoO("PoO-", params, PERMIT_POLICY.policy_name, timestamp, t2)
        p_or == PermitV1GeneratePoR(params, dec)
        p_oi == PermitV1VerifyPoI(dec, params, t2)
    IN  [decision |-> dec,
         steps |-> [multi |-> "none", before_multi |-> recommendation,
                    after_multi |-> recommendation, permit_clamped |-> permit_clamped],
         poo |-> p_oo, por |-> p_or, poi |-> p_oi,
         bundle |-> CreateVerificationBundle("VB-", p_oo, p_or, p_oi, t2)]

EvaluatePermit1(Inputs, Times) ==
    /\ op = "none"
    /\ \E d \in Inputs, t1 \in Times, t2 \in Times :
        /\ InstantLe(t1, t2)
        /\ Returned("permit-1.0", "evaluatePermit", d, EvaluatePermitV1(d, t1, t2), Reads(t1, t2))

---------------------------------------------------------------------------
(* Hiring Engine v1.0  (src/unnamed/part_002) *)

HIRING_POLICY ==
    [policy_name |-> "Fair Employment Screening Policy v1.0",
     version |-> "",
     declaration_timestamp |-> DeclarationTimestamp,
     constraints |-> <<Constraint("E1", "mandatory"), Constraint("E2", "mandatory"),
                       Constraint("E3", "mandatory"), Constraint("E4", "warning")>>]

SkillFit(s) == IF Lt(s, 40) THEN "POOR" ELSE IF Lt(s, 65) THEN "PARTIAL" ELSE "STRONG"
InterviewResult(i) == IF Lt(i, 40) THEN "FAIL" ELSE IF Lt(i, 60) THEN "BORDERLINE" ELSE "PASS"
ExperienceLevel(y) == IF Lt(y, 1) THEN "JUNIOR" ELSE IF Lt(y, 5) THEN "MID" ELSE "SENIOR"

HiringV1GeneratePoR(params, dec) ==
    LET skill_fit == SkillFit(params.skill_match_score)
        interview_result == InterviewResult(params.interview_score)
        experience_level == ExperienceLevel(params.experience_years)
        vertices ==
            <<Vertex("p1", "premise", <<"experience_years", params.experience_years>>),
              Vertex("p2", "premise", <<"skill_match", params.skill_match_score>>),
              Vertex("p3", "premise", <<"education_level", params.education_level>>),
              Vertex("p4", "premise", <<"interview_score", params.interview_score>>),
              Vertex("p5", "premise", <<"reference_score", params.reference_score>>),
              Vertex("r1", "rule", <<"H1">>), Vertex("r2", "rule", <<"H2">>),
              Vertex("r3", "rule", <<"H3">>), Vertex("r4", "rule", <<"H4">>),
              Vertex("r5", "rule", <<"H5">>),
              Vertex("c1", "conclusion", <<"skill_fit", skill_fit>>),
              Vertex("c2", "conclusion", <<"interview_result", interview_result>>),
              Vertex("c3", "conclusion", <<"recommendation", dec.recommendation>>)>>
        edges ==
            <<<<"p2", "r1", "input">>, <<"r1", "c1", "entails">>, <<"p4", "r2", "input">>,
              <<"r2", "c2", "entails">>, <<"p1", "r3", "input">>, <<"c1", "r5", "input">>,
              <<"c2", "r5", "input">>, <<"r5", "c3", "entails">>>>
        sealed == SealGraph(vertices, edges)
    IN  [graph |-> sealed.graph,
         delta_logic |-> [steps |-> <<<<"H1", skill_fit>>, <<"H2", interview_result>>,
                                      <<"H3", experience_level>>, <<"H5", dec.recommendation>>>>],
         hash |-> sealed.hash,
         signature |-> sealed.signature]

HiringV1VerifyPoI(dec, params, now) ==
    LET e1_satisfied == Ge(params.skill_match_score, 40) \/ dec.recommendation = "NOT_RECOMMENDED"
        e2_satisfied == Ge(params.interview_score, 40) \/ dec.recommendation = "NOT_RECOMMENDED"
        e4_triggered == Lt(params.reference_score, 50)
        results ==
            <<Row("E1", "minimum_skill_threshold", e1_satisfied),
              Row("E2", "interview_minimum", e2_satisfied),
              Row("E3", "non_discrimination", TRUE),
              WarningRow("E4", "reference_warning", TRUE, e4_triggered),
              TemporalRowOrNow(HIRING_POLICY.declaration_timestamp, dec.timestamp, now)>>
    IN  SealPoI(HIRING_POLICY, results, now)

\* evaluateCandidate(params) of v1.0; composite_score of the decision is in hundredths
EvaluateCandidateV1(d, t1, t2) ==
    LET timestamp == ToISOString(t1)
        experience_years == Number(d.experience_years)
        skill_match_score == Number(d.skill_match_score)
        education_level == IF IsNum(Number(d.education_level))
                           THEN Clamp(1, 5, d.education_level) ELSE NaN
        interview_score == Number(d.interview_score)
        reference_score == Number(d.reference_score)
        params == [experience_years |-> experience_years,
                   skill_match_score |-> skill_match_score,
                   education_level |-> education_level,
                   interview_score |-> interview_score,
                   reference_score |-> reference_score]
        skill_fit == SkillFit(skill_match_score)
        interview_result == InterviewResult(interview_score)
        experience_level == ExperienceLevel(experience_years)
        reference_flag == IF Lt(reference_score, 50) THEN "CONCERN" ELSE "OK"
        allNum == \A x \in {experience_years, skill_match_score, education_level,
                            interview_score, reference_score} : IsNum(x)
        \* in units of 0.0001; NaN as soon as one operand is NaN
        composite_score == IF allNum
                           THEN skill_match_score * 30 + interview_score * 25
                                + (IF experience_years > 10 THEN 10 ELSE experience_years) * 200
                                + (education_level - 1) * 250
                                + reference_score * 15
                           ELSE NaN
        composite_clamped == IF allNum THEN Clamp(0, 10000, composite_score) ELSE NaN
        hardFail == skill_fit = "POOR" \/ interview_result = "FAIL"
        recommendation == IF hardFail THEN "NOT_RECOMMENDED"
                          ELSE IF Ge(composite_clamped, 7000) THEN "RECOMMENDED"
                          ELSE IF Ge(composite_clamped, 5000) THEN "FURTHER_REVIEW"
                          ELSE "NOT_RECOMMENDED"
        tier0 == IF Ge(composite_clamped, 8000) THEN "A"
                 ELSE IF Ge(composite_clamped, 6500) THEN "B"
                 ELSE IF Ge(composite_clamped, 5000) THEN "C"
                 ELSE "D"
        allRules == <<Rule("E1", Lt(skill_match_score, 40)),
                      Rule("E2", Lt(interview_score, 40)),
                      Rule("H1", skill_fit # "STRONG"),
                      Rule("H2", interview_result # "PASS"),
                      Rule("H3", experience_level # "SENIOR"),
                      Rule("H4", reference_flag = "CONCERN"),
                      Rule("H5", TRUE)>>
        reasons == Pushed(SubSeq(allRules, 1, 2))
                   \o (IF skill_fit = "PARTIAL" /\ recommendation # "NOT_RECOMMENDED"
                       THEN <<"H1">> ELSE <<>>)
                   \o (IF interview_result = "BORDERLINE" THEN <<"H2">> ELSE <<>>)
                   \o (IF experience_level = "JUNIOR" THEN <<"H3">> ELSE <<>>)
                   \o (IF reference_flag = "CONCERN" THEN <<"H4">> ELSE <<>>)
                   \o (IF recommendation # "NOT_RECOMMENDED" \/ ~hardFail THEN <<"H5">> ELSE <<>>)
        dec == [recommendation |-> recommendation,
                composite_score |-> IF allNum THEN RoundDiv(composite_clamped, 100) ELSE NaN,
                candidate_tier |-> IF recommendation = "NOT_RECOMMENDED" THEN "D" ELSE tier0,
                timestamp |-> timestamp,
                reasons |-> reasons,
                allRules |-> allRules]
        p_oo == GeneratePoO("PoO-", params, HIRING_POLICY.policy_name, timestamp, t2)
        p_or == HiringV1GeneratePoR(params, dec)
        p_oi == HiringV1VerifyPoI(dec, params, t2)
    IN  [decision |-> dec,
         steps |-> [multi |-> "none", before_multi |-> recommendation,
                    after_multi |-> recommendation, composite_clamped |-> composite_clamped],
         poo |-> p_oo, por |-> p_or, poi |-> p_oi,
         bundle |-> CreateVerificationBundle("VB-", p_oo, p_or, p_oi, t2)]

EvaluateCandidate1(Inputs, Times) ==
    /\ op = "none"
    /\ \E d \in Inputs, t1 \in Times, t2 \in Times :
        /\ InstantLe(t1, t2)
        /\ Returned("hiring-1.0", "evaluateCandidate", d, EvaluateCandidateV1(d, t1, t2), Reads(t1, t2))

---------------------------------------------------------------------------
(* Credit Engine v1.0  (src/unnamed/part_004) *)

CREDIT_POLICY_V1 ==
    [policy_name |-> "Consumer Credit Assessment Policy v1.0",
     version |-> "",
     declaration_timestamp |-> DeclarationTimestamp,
     constraints |-> <<Constraint("F1", "mandatory"), Constraint("F2", "mandatory"),
                       Constraint("F3", "mandatory"), Constraint("F4", "warning")>>]

\* loan_to_income > k, where loan_to_income = annual_income > 0 ? loan_amount / annual_income : 0
LoanToIncomeGt(params, k) ==
    Gt(params.annual_income, 0) /\ IsNum(params.loan_amount)
        /\ params.loan_amount > k * params.annual_income

CreditRisk(cs) == IF Lt(cs, 580) THEN "HIGH" ELSE IF Lt(cs, 670) THEN "MEDIUM" ELSE "LOW"
DtiRisk(dti) == IF Gt(dti, 50) THEN "HIGH" ELSE IF Gt(dti, 43) THEN "ELEVATED" ELSE "LOW"
LtiRisk(params) ==
    IF LoanToIncomeGt(params, 5) THEN "HIGH"
    ELSE IF LoanToIncomeGt(params, 3) THEN "ELEVATED" ELSE "LOW"
EmploymentRisk(y) == IF Lt(y, 1) THEN "HIGH" ELSE IF Lt(y, 3) THEN "MEDIUM" ELSE "LOW"

CreditV1GeneratePoR(params, dec) ==
    LET credit_risk == CreditRisk(params.credit_score)
        dti_risk == DtiRisk(params.debt_to_income)
        lti_risk == LtiRisk(params)
        employment_risk == EmploymentRisk(params.employment_years)
        vertices ==
            <<Vertex("p1", "premise", <<"credit_score", params.credit_score>>),
              Vertex("p2", "premise", <<"annual_income", params.annual_income>>),
              Vertex("p3", "premise", <<"debt_to_income", params.debt_to_income>>),
              Vertex("p4", "premise", <<"loan_amount", params.loan_amount>>),
              Vertex("p5", "premise", <<"employment_years", params.employment_years>>),
              Vertex("r1", "rule", <<"R1">>), Vertex("r2", "rule", <<"R2">>),
              Vertex("r3", "rule", <<"R3">>), Vertex("r4", "rule", <<"R4">>),
              Vertex("r5", "rule", <<"R5">>),
              Vertex("c1", "conclusion", <<"credit_risk", credit_risk>>),
              Vertex("c2", "conclusion", <<"dti_risk", dti_risk>>),
              Vertex("c3", "conclusion", <<"recommendation", dec.recommendation>>)>>
        edges ==
            <<<<"p1", "r1", "input">>, <<"r1", "c1", "entails">>, <<"p3", "r2", "input">>,
              <<"r2", "c2", "entails">>, <<"p4", "r3", "input">>, <<"p2", "r3", "input">>,
              <<"c1", "r5", "input">>, <<"c2", "r5", "input">>, <<"r5", "c3", "entails">>>>
        sealed == SealGraph(vertices, edges)
    IN  [graph |-> sealed.graph,
         delta_logic |-> [steps |-> <<<<"R1", credit_risk>>, <<"R2", dti_risk>>,
                                      <<"R3", lti_risk>>, <<"R4", employment_risk>>,
                                      <<"R5", dec.recommendation>>>>],
         hash |-> sealed.hash,
         signature |-> sealed.signature]

CreditV1VerifyPoI(dec, params, now) ==
    LET f1_satisfied == Ge(params.credit_score, 580) \/ dec.recommendation = "DENIED"
        f2_satisfied == Le(params.debt_to_income, 50) \/ dec.recommendation = "DENIED"
        f4_triggered == LoanToIncomeGt(params, 5)
        results ==
            <<Row("F1", "credit_floor", f1_satisfied),
              Row("F2", "dti_ceiling", f2_satisfied),
              Row("F3", "fair_lending", TRUE),
              WarningRow("F4", "lti_warning", TRUE, f4_triggered),
              TemporalRowOrNow(CREDIT_POLICY_V1.declaration_timestamp, dec.timestamp, now)>>
    IN  SealPoI(CREDIT_POLICY_V1, results, now)

\* evaluateCredit(params) of v1.0
EvaluateCreditV1(d, t1, t2) ==
    LET timestamp == ToISOString(t1)
        params == [credit_score |-> Number(d.credit_score),
                   annual_income |-> Number(d.annual_income),
                   debt_to_income |-> Number(d.debt_to_income),
                   loan_amount |-> Number(d.loan_amount),
                   employment_years |-> Number(d.employment_years)]
        credit_risk == CreditRisk(params.credit_score)
        dti_risk == DtiRisk(params.debt_to_income)
        lti_risk == LtiRisk(params)
        employment_risk == EmploymentRisk(params.employment_years)
        recommendation ==
            IF credit_risk = "HIGH" \/ dti_risk = "HIGH" THEN "DENIED"
            ELSE IF \/ credit_risk = "MEDIUM" \/ dti_risk = "ELEVATED"
                    \/ lti_risk = "HIGH" \/ employment_risk = "HIGH" THEN "MANUAL_REVIEW"
            ELSE "APPROVED"
        risk_sum == (IF credit_risk = "HIGH" THEN 45 ELSE IF credit_risk = "MEDIUM" THEN 25 ELSE 0)
                    + (IF dti_risk = "HIGH" THEN 40 ELSE IF dti_risk = "ELEVATED" THEN 20 ELSE 0)
                    + (IF lti_risk = "HIGH" THEN 15 ELSE IF lti_risk = "ELEVATED" THEN 8 ELSE 0)
                    + (IF employment_risk = "HIGH" THEN 15
                       ELSE IF employment_risk = "MEDIUM" THEN 5 ELSE 0)
        risk_score == IF risk_sum > 100 THEN 100 ELSE risk_sum
        tier0 == IF risk_score > 75 THEN "D" ELSE IF risk_score > 50 THEN "C"
                 ELSE IF risk_score > 25 THEN "B" ELSE "A"
        allRules == <<Rule("F1", Lt(params.credit_score, 580)),
                      Rule("F2", Gt(params.debt_to_income, 50)),
                      Rule("R1", credit_risk # "LOW"),
                      Rule("R2", dti_risk # "LOW"),
                      Rule("R3", lti_risk # "LOW"),
                      Rule("R4", employment_risk # "LOW"),
                      Rule("R5", TRUE)>>
        reasons == Pushed(SubSeq(allRules, 1, 2))
                   \o (IF credit_risk = "MEDIUM" /\ recommendation # "DENIED" THEN <<"R1">> ELSE <<>>)
                   \o (IF dti_risk = "ELEVATED" /\ recommendation # "DENIED" THEN <<"R2">> ELSE <<>>)
                   \o (IF lti_risk = "HIGH" THEN <<"R3">> ELSE <<>>)
                   \o (IF employment_risk = "HIGH" THEN <<"R4">> ELSE <<>>)
                   \o (IF recommendation = "APPROVED" THEN <<"R5">> ELSE <<>>)
        dec == [recommendation |-> recommendation,
                risk_level |-> IF risk_score <= 25 THEN "LOW"
                               ELSE IF risk_score <= 50 THEN "MEDIUM" ELSE "HIGH",
                risk_score |-> risk_score,
                interest_rate_tier |-> IF recommendation = "DENIED" THEN "-" ELSE tier0,
                timestamp |-> timestamp,
                reasons |-> reasons,
                allRules |-> allRules]
        p_oo == GeneratePoO("PoO-", params, CREDIT_POLICY_V1.policy_name, timestamp, t2)
        p_or == CreditV1GeneratePoR(params, dec)
        p_oi == CreditV1VerifyPoI(dec, params, t2)
    IN  [decision |-> dec,
         steps |-> [multi |-> "none", before_multi |-> recommendation,
                    after_multi |-> recommendation],
         poo |-> p_oo, por |-> p_or, poi |-> p_oi,
         bundle |-> CreateVerificationBundle("VB-", p_oo, p_or, p_oi, t2)]

EvaluateCredit1(Inputs, Times) ==
    /\ op = "none"
    /\ \E d \in Inputs, t1 \in Times, t2 \in Times :
        /\ InstantLe(t1, t2)
        /\ Returned("credit-1.0", "evaluateCredit", d, EvaluateCreditV1(d, t1, t2), Reads(t1, t2))

---------------------------------------------------------------------------
(* Wall-clock readings the calls are checked at *)

Epoch == <<1970, 1, 1, 0, 0, 0, 0>>
JustBeforeDeclaration == <<2024, 11, 15, 8, 59, 59, 999>>
DeclarationSecond == <<2024, 11, 15, 9, 0, 0, 0>>
DeclarationSecondLate == <<2024, 11, 15, 9, 0, 0, 500>>
SecondAfterDeclaration == <<2024, 11, 15, 9, 0, 1, 0>>
Today == <<2026, 11, 2, 12, 30, 0, 250>>
EndOfYear9999 == <<9999, 12, 31, 23, 59, 59, 999>>
Year10000 == <<10000, 1, 1, 0, 0, 0, 0>>

Instants == {Epoch, JustBeforeDeclaration, DeclarationSecond, DeclarationSecondLate,
             SecondAfterDeclaration, Today, EndOfYear9999, Year10000}

RuleTimes == {Epoch, Today}

---------------------------------------------------------------------------
(* Inputs the evaluators are checked on: every field takes its missing
   value and values on both sides of each threshold the code compares with *)

CreditInputs ==
    [loan_type : {"", "mortgage"},
     credit_score : {Undefined, 450, 700},
     debt_to_income : {Undefined, 60},
     annual_income : {Undefined, 0, 15000},
     loan_amount : {Undefined, 250200},
     employment_years : {Undefined, 0},
     collateral_ratio : {Undefined, 50},
     bankruptcy_history : {"undefined", "true"},
     payment_history_score : {Undefined, 30},
     credit_utilization : {Undefined, 90},
     business_revenue : {Undefined},
     vehicle_value : {Undefined},
     tuition_amount : {Undefined}]

LegalInputs ==
    [case_type : {""},
     contract_validity : {Undefined, 0, 30, 80},
     regulatory_compliance : {Undefined, 0, 40},
     liability_exposure : {Undefined, 80},
     evidence_score : {Undefined, 0, 20},
     precedent_alignment : {Undefined, 30},
     jurisdiction_recognized : {"undefined", "false"},
     within_statute : {"true", "false"},
     conflict_of_interest : {"undefined", "true"},
     financial_exposure : {Undefined, 200000},
     financial_threshold : {Undefined}]

GovernmentInputs ==
    [service_type : {""}, license_type : {"", "driver"}, benefit_type : {""},
     permit_type : {""}, registration_type : {""},
     identity_verified : {"true", "false"},
     eligibility_score : {Undefined, 0, 30},
     documentation_score : {Undefined, 0, 40},
     residency_verified : {"true", "false"},
     requires_residency : {"undefined", "false"},
     tax_compliant : {"true", "false"},
     criminal_flagged : {"false", "true"},
     requires_clearance : {"true"},
     duplicate_detected : {"undefined", "true"},
     service_capacity : {Undefined, 10},
     priority_group : {"undefined", "true"}]

\* {zoning_compliance: 0.85, structural_safety: 0.9, environmental_impact: 0.25,
\*  plot_coverage_ratio: 0.55, fire_safety_score: 0.8} and no other field
SoundProject ==
    [zoning_compliance |-> 85, structural_safety |-> 90, environmental_impact |-> 25,
     plot_coverage_ratio |-> 55, fire_safety_score |-> 80]
SoundProjectV2 ==
    [permit_type |-> "", industrial_category |-> "", commercial_area |-> Undefined,
     renovation_scope |-> "", infrastructure_class |-> "",
     zoning_compliance |-> 85, structural_safety |-> 90, environmental_impact |-> 25,
     fire_safety_score |-> 80, plot_coverage_ratio |-> 55,
     accessibility_score |-> Undefined, utility_capacity |-> Undefined,
     heritage_zone |-> "undefined", heritage_compliance |-> Undefined,
     traffic_impact |-> Undefined]

PermitV2Inputs ==
    {SoundProjectV2} \cup
    [permit_type : {"", "renovation"},
     industrial_category : {""}, commercial_area : {Undefined},
     renovation_scope : {""}, infrastructure_class : {""},
     zoning_compliance : {Undefined, 30},
     structural_safety : {Undefined, 40},
     environmental_impact : {Undefined, 80},
     fire_safety_score : {Undefined, 0, 40},
     plot_coverage_ratio : {Undefined, 90},
     accessibility_score : {Undefined, 30},
     utility_capacity : {Undefined, 20},
     heritage_zone : {"false", "true"},
     heritage_compliance : {Undefined, 0, 50},
     traffic_impact : {Undefined, 80}]

\* {skill_match_score: 0.85, experience_years: 7, interview_score: 0.9,
\*  reference_score: 0.8, education_level: 4} and no other field
StrongCandidate ==
    [experience_years |-> 7, skill_match_score |-> 85, education_level |-> 4,
     interview_score |-> 90, reference_score |-> 80]
StrongCandidateV2 ==
    [role_category |-> "", technical_score |-> Undefined, leadership_score |-> Undefined,
     portfolio_score |-> Undefined, skill_match_score |-> 85, experience_years |-> 7,
     interview_score |-> 90, reference_score |-> 80, education_level |-> 4,
     cultural_fit_score |-> Undefined, background_flagged |-> "undefined",
     salary_expectation |-> Undefined, salary_budget |-> Undefined,
     requires_degree |-> "undefined", role_level |-> "", diversity_enabled |-> "undefined"]

HiringV2Inputs ==
    {StrongCandidateV2} \cup
    [role_category : {""}, technical_score : {Undefined}, leadership_score : {Undefined},
     portfolio_score : {Undefined},
     skill_match_score : {Undefined, 20, 90},
     experience_years : {Undefined, 1, 10},
     interview_score : {Undefined, 20, 90},
     reference_score : {Undefined, 0, 20},
     education_level : {Undefined, 2},
     cultural_fit_score : {Undefined, 20},
     background_flagged : {"false", "true"},
     salary_expectation : {Undefined, 130000},
     salary_budget : {100000},
     requires_degree : {"undefined"},
     role_level : {"", "SENIOR"},
     diversity_enabled : {"false", "true"}]

MedicalInputs ==
    [category : {"", "maternal"},
     vital_score : {Undefined, 30, 55, 80},
     age : {8, 40, 70},
     comorbidity_index : {Undefined, 55, 70},
     wait_time : {20, 45, 90},
     resource_score : {Undefined, 20, 60},
     trauma_score : {Undefined, 80},
     is_pregnant : {"undefined", "true"},
     pregnancy_week : {Undefined},
     complications : {"undefined", "true", "yes"}]

TriageInputs ==
    [vital_score : {Undefined, 30, 80},
     age : {40, 70},
     comorbidity_index : {Undefined, 30, 70},
     wait_time : {20, 45, 90},
     resource_score : {Undefined, 50, 60}]

PermitV1Inputs ==
    {SoundProject} \cup
    [zoning_compliance : {Undefined, 40, 60, 90},
     structural_safety : {50, 70, 90},
     environmental_impact : {30, 50, 80},
     plot_coverage_ratio : {30, 70, 120},
     fire_safety_score : {40, 85, 90}]

HiringV1Inputs ==
    {StrongCandidate} \cup
    [experience_years : {Undefined, 0, 3, 12},
     skill_match_score : {30, 50, 90},
     education_level : {0, 3, 7},
     interview_score : {30, 50, 90},
     reference_score : {40, 80}]

CreditV1Inputs ==
    [credit_score : {Undefined, 500, 600, 720},
     annual_income : {0, 50000},
     debt_to_income : {30, 45, 60},
     loan_amount : {20000, 200000, 300000},
     employment_years : {0, 2, 5}]

---------------------------------------------------------------------------
(* The chat server  (src/unnamed/part_005): daily usage limits of
   /api/ai/stream.  One guest address and one registered user, who sends from
   an address of their own; one UTC day. *)

\* const GUEST_LIMIT = 20
GUEST_LIMIT == 20

\* PLAN_LIMITS[plan].messages_per_day
PLAN_LIMITS == [free |-> [messages_per_day |-> 50],
                guest |-> [messages_per_day |-> GUEST_LIMIT]]

\* requests the server handles at the same time
MaxInFlight == 2
Slots == 1..MaxInFlight

\* requests keep arriving until a caller has been served this many times
\* more than the plan allows
MaxOverrun == 1

UtcDay == "2026-11-02"

GuestAddress == "guest address"
UserAddress == "user address"

\* guestUsage.get(key) of a key not in the map
NoEntry == [count |-> 0, date |-> ""]

\* a slot no request occupies
IdleRequest == [pc |-> "idle", registered |-> FALSE, conversation_id |-> FALSE,
                messages_today |-> Undefined]

\* the server after start-up: the guestUsage map empty, the user's row with
\* messages_today 0, nothing in flight, nothing served
ServerStart ==
    [guestUsage |-> [k \in {GuestAddress, UserAddress} |-> NoEntry],
     messages_today |-> 0,
     requests |-> [s \in Slots |-> IdleRequest],
     served |-> [guest |-> 0, registered |-> 0],
     refused |-> [guest |-> FALSE, registered |-> FALSE]]

---------------------------------------------------------------------------
(* The evaluators under every rule combination *)

Init ==
    /\ clock = <<>>
    /\ engine = "none"
    /\ op = "none"
    /\ input = None
    /\ decision = None
    /\ steps = None
    /\ poo = None
    /\ por = None
    /\ poi = None
    /\ bundle = None
    /\ pooLog = <<>>
    /\ history = <<>>
    /\ stream = ServerStart

Next ==
    \/ EvaluateMedical(MedicalInputs, RuleTimes)
    \/ TriageDecision(TriageInputs, RuleTimes)
    \/ EvaluateCredit(CreditInputs, RuleTimes)
    \/ EvaluateCredit1(CreditV1Inputs, RuleTimes)
    \/ EvaluateCandidate2(HiringV2Inputs, RuleTimes)
    \/ EvaluateCandidate1(HiringV1Inputs, RuleTimes)
    \/ EvaluateLegal(LegalInputs, RuleTimes)
    \/ EvaluateGovernment(GovernmentInputs, RuleTimes)
    \/ EvaluatePermit2(PermitV2Inputs, RuleTimes)
    \/ EvaluatePermit1(PermitV1Inputs, RuleTimes)

Spec == Init /\ [][Next]_vars


---------------------------------------------------------------------------
(* generatePoO called directly, several times in a row *)

MaxCalls == 2

PoOEngines == {"triage-2.1", "credit-2.0"}
PoOPrefix(eng) ==
    CASE eng = "credit-2.0" -> "PoO-CRD-"
      [] eng = "legal-1.0" -> "PoO-LEG-"
      [] eng = "government-1.0" -> "PoO-GOV-"
      [] eng = "permit-2.0" -> "PoO-PRM-"
      [] eng = "hiring-2.0" -> "PoO-HIR-"
      [] eng = "medical-3.0" -> "PoO-MED-"
      [] OTHER -> "PoO-"
PoOData ==
    {[vital_score |-> 30, wait_time |-> 20, age |-> 40,
      comorbidity_index |-> Undefined, resource_score |-> Undefined],
     [vital_score |-> 80, wait_time |-> 90, age |-> 70,
      comorbidity_index |-> 70, resource_score |-> 50]}
PoOPolicies == {"triage_protocol_v2.1", CREDIT_POLICY.policy_name}
PoOTimestamps == {ToISOString(Epoch), ToISOString(Today)}

\* one call generatePoO(data, policy, timestamp) made while the clock reads now
GeneratePoOCall(Times) ==
    /\ Len(pooLog) < MaxCalls
    /\ \E eng \in PoOEngines, data \in PoOData, policy \in PoOPolicies,
          timestamp \in PoOTimestamps, now \in Times :
          LET r == GeneratePoO(PoOPrefix(eng), data, policy, timestamp, now)
          IN  /\ pooLog' = Append(pooLog, [engine |-> eng, data |-> data, policy |-> policy,
                                           timestamp |-> timestamp, result |-> r])
              /\ clock' = <<now>>
              /\ engine' = eng
              /\ op' = "generatePoO"
              /\ input' = data
              /\ poo' = r
              /\ UNCHANGED <<decision, steps, por, poi, bundle, history, stream>>

NextPoO == GeneratePoOCall(RuleTimes)

SpecPoO == Init /\ [][NextPoO]_vars

\* the (input, policy, timestamp) triple of a logged call
Triple(call) == <<call.data, call.policy, call.timestamp>>

\* C1: any two generatePoO calls on the same (input record, policy name,
\* timestamp) triple return the same hash and the same signature, whatever
\* the clock read and whatever calls came before
C1_PoODeterministic ==
    \A i \in DOMAIN pooLog : \A j \in DOMAIN pooLog :
        Triple(pooLog[i]) = Triple(pooLog[j]) =>
            /\ pooLog[i].result.hash = pooLog[j].result.hash
            /\ pooLog[i].result.signature = pooLog[j].result.signature

\* two calls on one triple at different clock readings: only state_reference differs
C1_Witness ==
    \E i \in DOMAIN pooLog : \E j \in DOMAIN pooLog :
        /\ i < j
        /\ Triple(pooLog[i]) = Triple(pooLog[j])
        /\ pooLog[i].result.state_reference # pooLog[j].result.state_reference
        /\ pooLog[i].result.hash = pooLog[j].result.hash


---------------------------------------------------------------------------
(* verifyPoI and createVerificationBundle called directly, on any decision
   object together with any input record *)

PoITimestamps == {ToISOString(Epoch), ToISOString(Today)}
LegacyTimestamps == {<<>>} \cup PoITimestamps
PoITimes == {Today}

CreditDecisions ==
    [recommendation : {"APPROVED", "MANUAL_REVIEW", "DENIED"},
     risk_level : {"LOW", "HIGH"},
     loan_to_income_ratio : {40, 500, 600},
     timestamp : PoITimestamps]

CreditPoIInputs ==
    [loan_type : {""}, credit_score : {Undefined, 450, 700},
     debt_to_income : {Undefined, 60}, annual_income : {Undefined},
     loan_amount : {Undefined, 250200, 300000}, employment_years : {Undefined},
     collateral_ratio : {Undefined}, bankruptcy_history : {"undefined", "true"},
     payment_history_score : {Undefined}, credit_utilization : {Undefined},
     business_revenue : {Undefined}, vehicle_value : {Undefined},
     tuition_amount : {Undefined}]

LegalDecisions ==
    [recommendation : {"APPROVED", "FURTHER_REVIEW", "REJECTED"},
     non_compliant : BOOLEAN,
     risk_level : {"LOW", "HIGH"},
     timestamp : PoITimestamps]

LegalPoIInputs ==
    [case_type : {""}, contract_validity : {Undefined, 0, 30},
     regulatory_compliance : {0, 70}, liability_exposure : {Undefined, 80},
     evidence_score : {0, 60}, precedent_alignment : {Undefined},
     jurisdiction_recognized : {"undefined", "false"},
     within_statute : {"true", "false"}, conflict_of_interest : {"undefined"},
     financial_exposure : {Undefined}, financial_threshold : {Undefined}]

GovernmentDecisions ==
    [recommendation : {"APPROVED", "FURTHER_REVIEW", "REJECTED"},
     status : {"COMPLETE", "INCOMPLETE"},
     tax_hold : BOOLEAN,
     timestamp : PoITimestamps]

GovernmentPoIInputs ==
    [service_type : {""}, license_type : {""}, benefit_type : {""},
     permit_type : {""}, registration_type : {""},
     identity_verified : {"true", "false"},
     eligibility_score : {Undefined, 0, 30},
     documentation_score : {0, 70},
     residency_verified : {"true", "false"},
     requires_residency : {"undefined", "false"},
     tax_compliant : {"true", "false"},
     criminal_flagged : {"false"}, requires_clearance : {"true"},
     duplicate_detected : {"undefined", "true"},
     service_capacity : {Undefined}, priority_group : {"undefined"}]

PermitV2Decisions ==
    [recommendation : {"APPROVED", "CONDITIONAL_APPROVAL", "DENIED"},
     environmental_review : BOOLEAN,
     timestamp : PoITimestamps]

PermitV2PoIInputs ==
    [permit_type : {""}, industrial_category : {""}, commercial_area : {Undefined},
     renovation_scope : {""}, infrastructure_class : {""},
     zoning_compliance : {Undefined, 30},
     structural_safety : {Undefined, 40},
     environmental_impact : {Undefined, 80},
     fire_safety_score : {Undefined, 0, 40},
     plot_coverage_ratio : {Undefined},
     accessibility_score : {Undefined}, utility_capacity : {Undefined},
     heritage_zone : {"false", "true"},
     heritage_compliance : {Undefined, 0, 50},
     traffic_impact : {Undefined}]

HiringV2Decisions ==
    [recommendation : {"RECOMMENDED", "FURTHER_REVIEW", "NOT_RECOMMENDED"},
     reference_concern : BOOLEAN,
     timestamp : PoITimestamps]

HiringV2PoIInputs ==
    [role_category : {""}, technical_score : {Undefined}, leadership_score : {Undefined},
     portfolio_score : {Undefined},
     skill_match_score : {Undefined, 20, 90},
     experience_years : {Undefined},
     interview_score : {Undefined, 20},
     reference_score : {Undefined, 0, 20},
     education_level : {Undefined}, cultural_fit_score : {Undefined},
     background_flagged : {"false", "true"},
     salary_expectation : {Undefined}, salary_budget : {Undefined},
     requires_degree : {"undefined"}, role_level : {""},
     diversity_enabled : {"false"}]

MedicalDecisions ==
    [priority : {"LOW", "MEDIUM", "HIGH"},
     reassessment : BOOLEAN,
     category : {"GENERAL", "MATERNAL"},
     resource_alert : BOOLEAN,
     timestamp : {ToISOString(Today)}]

MedicalPoIInputs ==
    [category : {"maternal"},
     vital_score : {Undefined, 30, 55, 80},
     age : {8, 40, 70},
     comorbidity_index : {Undefined, 70},
     wait_time : {20, 90},
     resource_score : {Undefined, 20},
     trauma_score : {Undefined, 80},
     is_pregnant : {"undefined"},
     pregnancy_week : {Undefined},
     complications : {"undefined", "yes"}]

TriageDecisions ==
    [priority : {"LOW", "MEDIUM", "HIGH"},
     reassessment : BOOLEAN,
     timestamp : PoITimestamps]

TriagePoIInputs ==
    [vital_score : {Undefined, 30, 80}, age : {40}, comorbidity_index : {Undefined},
     wait_time : {20, 90}, resource_score : {Undefined}]

PermitV1Decisions ==
    [recommendation : {"APPROVED", "CONDITIONAL_APPROVAL", "DENIED"},
     timestamp : LegacyTimestamps]

PermitV1PoIInputs ==
    [zoning_compliance : {Undefined, 40, 90}, structural_safety : {50, 90},
     environmental_impact : {30, 80}, plot_coverage_ratio : {30, 70},
     fire_safety_score : {40, 90}]

HiringV1Decisions ==
    [recommendation : {"RECOMMENDED", "FURTHER_REVIEW", "NOT_RECOMMENDED"},
     timestamp : LegacyTimestamps]

HiringV1PoIInputs ==
    [experience_years : {3}, skill_match_score : {Undefined, 30, 90}, education_level : {3},
     interview_score : {30, 90}, reference_score : {40, 80}]

CreditV1Decisions ==
    [recommendation : {"APPROVED", "MANUAL_REVIEW", "DENIED"},
     timestamp : LegacyTimestamps]

CreditV1PoIInputs ==
    [credit_score : {Undefined, 500, 720}, annual_income : {0, 50000},
     debt_to_income : {30, 60}, loan_amount : {300000}, employment_years : {2}]


\* the engine that a name of the engine variable stands for
PolicyOf(eng) ==
    CASE eng = "credit-2.0" -> CREDIT_POLICY
      [] eng = "legal-1.0" -> LEGAL_POLICY
      [] eng = "government-1.0" -> GOVERNMENT_POLICY
      [] eng = "permit-2.0" -> PERMIT_POLICY_V2
      [] eng = "hiring-2.0" -> HIRING_POLICY_V2
      [] eng = "medical-3.0" -> MEDICAL_POLICY
      [] eng = "triage-2.1" -> TRIAGE_POLICY
      [] eng = "permit-1.0" -> PERMIT_POLICY
      [] eng = "hiring-1.0" -> HIRING_POLICY
      [] eng = "credit-1.0" -> CREDIT_POLICY_V1

\* the policy argument the engine's evaluate function passes to generatePoO
PoOPolicyOf(eng) ==
    IF eng = "triage-2.1" THEN "triage_protocol_v2.1" ELSE PolicyOf(eng).policy_name

\* the prefix of bundle_id in the engine's createVerificationBundle
BundlePrefix(eng) ==
    CASE eng = "credit-2.0" -> "VB-CRD-"
      [] eng = "legal-1.0" -> "VB-LEG-"
      [] eng = "government-1.0" -> "VB-GOV-"
      [] eng = "permit-2.0" -> "VB-PRM-"
      [] eng = "hiring-2.0" -> "VB-HIR-"
      [] eng = "medical-3.0" -> "VB-MED-"
      [] OTHER -> "VB-"

\* the evaluators sharing one reasons array that is never cleared: a call
\* returns the reasons of the evaluation before it followed by its own
EvaluateByShared(eng, d, t1, t2) ==
    LET fresh ==
            CASE eng = "credit-2.0" -> EvaluateCreditV2(d, t1, t2)
              [] eng = "legal-1.0" -> EvaluateLegalV1(d, t1, t2)
              [] eng = "government-1.0" -> EvaluateGovernmentV1(d, t1, t2)
              [] eng = "permit-2.0" -> EvaluatePermitV2(d, t1, t2)
              [] eng = "hiring-2.0" -> EvaluateCandidateV2(d, t1, t2)
              [] eng = "medical-3.0" -> EvaluateMedicalV3(d, t1, t2)
              [] eng = "triage-2.1" -> TriageDecisionV2(d, t1, t2)
              [] eng = "permit-1.0" -> EvaluatePermitV1(d, t1, t2)
              [] eng = "hiring-1.0" -> EvaluateCandidateV1(d, t1, t2)
              [] eng = "credit-1.0" -> EvaluateCreditV1(d, t1, t2)
        last == history[Len(history)]
    IN  IF Len(history) > 0 /\ last.op \notin {"verifyPoI", "createVerificationBundle"}
        THEN [fresh EXCEPT !.decision.reasons = last.decision.reasons \o @]
        ELSE fresh

\* the engine's evaluate function applied to d, the clock reading t1 and then t2
EvaluateBy(eng, d, t1, t2) ==
    CASE eng = "credit-2.0" -> EvaluateCreditV2(d, t1, t2)
      [] eng = "legal-1.0" -> EvaluateLegalV1(d, t1, t2)
      [] eng = "government-1.0" -> EvaluateGovernmentV1(d, t1, t2)
      [] eng = "permit-2.0" -> EvaluatePermitV2(d, t1, t2)
      [] eng = "hiring-2.0" -> EvaluateCandidateV2(d, t1, t2)
      [] eng = "medical-3.0" -> EvaluateMedicalV3(d, t1, t2)
      [] eng = "triage-2.1" -> TriageDecisionV2(d, t1, t2)
      [] eng = "permit-1.0" -> EvaluatePermitV1(d, t1, t2)
      [] eng = "hiring-1.0" -> EvaluateCandidateV1(d, t1, t2)
      [] eng = "credit-1.0" -> EvaluateCreditV1(d, t1, t2)

\* the state after verifyPoI(dec, data) of engine eng returned r
Checked(eng, dec, data, r, now) ==
    /\ clock' = <<now>>
    /\ engine' = eng
    /\ op' = "verifyPoI"
    /\ input' = data
    /\ decision' = dec
    /\ poi' = r
    /\ history' = Append(history, Call(eng, "verifyPoI", data, data, <<now>>, dec,
                                       None, None, r, None))
    /\ UNCHANGED <<steps, poo, por, bundle, pooLog, stream>>

CreditVerifyPoICall(Decisions, Inputs, Times) ==
    /\ op = "none"
    /\ \E dec \in Decisions, d \in Inputs, now \in Times :
        Checked("credit-2.0", dec, d, CreditVerifyPoI(dec, d, now), now)

LegalVerifyPoICall(Decisions, Inputs, Times) ==
    /\ op = "none"
    /\ \E dec \in Decisions, d \in Inputs, now \in Times :
        Checked("legal-1.0", dec, d, LegalVerifyPoI(dec, d, now), now)

GovernmentVerifyPoICall(Decisions, Inputs, Times) ==
    /\ op = "none"
    /\ \E dec \in Decisions, d \in Inputs, now \in Times :
        Checked("government-1.0", dec, d, GovernmentVerifyPoI(dec, d, now), now)

PermitV2VerifyPoICall(Decisions, Inputs, Times) ==
    /\ op = "none"
    /\ \E dec \in Decisions, d \in Inputs, now \in Times :
        Checked("permit-2.0", dec, d, PermitV2VerifyPoI(dec, d, now), now)

HiringV2VerifyPoICall(Decisions, Inputs, Times) ==
    /\ op = "none"
    /\ \E dec \in Decisions, d \in Inputs, now \in Times :
        Checked("hiring-2.0", dec, d, HiringV2VerifyPoI(dec, d, now), now)

MedicalVerifyPoICall(Decisions, Inputs, Times) ==
    /\ op = "none"
    /\ \E dec \in Decisions, d \in Inputs, now \in Times :
        Checked("medical-3.0", dec, d, MedicalVerifyPoI(dec, d, now), now)

TriageVerifyPoICall(Decisions, Inputs, Times) ==
    /\ op = "none"
    /\ \E dec \in Decisions, d \in Inputs, now \in Times :
        Checked("triage-2.1", dec, d, TriageVerifyPoI(dec, d, now), now)

PermitV1VerifyPoICall(Decisions, Inputs, Times) ==
    /\ op = "none"
    /\ \E dec \in Decisions, d \in Inputs, now \in Times :
        Checked("permit-1.0", dec, d, PermitV1VerifyPoI(dec, d, now), now)

HiringV1VerifyPoICall(Decisions, Inputs, Times) ==
    /\ op = "none"
    /\ \E dec \in Decisions, d \in Inputs, now \in Times :
        Checked("hiring-1.0", dec, d, HiringV1VerifyPoI(dec, d, now), now)

CreditV1VerifyPoICall(Decisions, Inputs, Times) ==
    /\ op = "none"
    /\ \E dec \in Decisions, d \in Inputs, now \in Times :
        Checked("credit-1.0", dec, d, CreditV1VerifyPoI(dec, d, now), now)

\* reason graphs handed to createVerificationBundle: one without edges (no
\* generatePoR builds it, a caller can) and one with an edge
BundlePoRs ==
    {SealGraph(<<Vertex("p1", "premise", "x")>>, <<>>),
     SealGraph(<<Vertex("p1", "premise", "x"), Vertex("c1", "conclusion", "y")>>,
               <<<<"p1", "c1", "supports">>>>)}

\* createVerificationBundle(poo, por, poi) on the PoI result just computed
CreateVerificationBundleCall(Times) ==
    /\ op = "verifyPoI"
    /\ \E p_or \in BundlePoRs, now \in Times :
        LET p_oo == GeneratePoO(PoOPrefix(engine), input, PoOPolicyOf(engine),
                                ToISOString(now), now)
        IN  /\ clock' = <<now>>
            /\ op' = "createVerificationBundle"
            /\ poo' = p_oo
            /\ por' = p_or
            /\ bundle' = CreateVerificationBundle(BundlePrefix(engine), p_oo, p_or, poi, now)
            /\ history' = Append(history, Call(engine, "createVerificationBundle", input, input,
                                               <<now>>, decision, p_oo, p_or, poi, bundle'))
            /\ UNCHANGED <<engine, input, decision, steps, poi, pooLog, stream>>

NextPoI ==
    \/ MedicalVerifyPoICall(MedicalDecisions, MedicalPoIInputs, PoITimes)
    \/ TriageVerifyPoICall(TriageDecisions, TriagePoIInputs, RuleTimes)
    \/ CreditVerifyPoICall(CreditDecisions, CreditPoIInputs, PoITimes)
    \/ CreditV1VerifyPoICall(CreditV1Decisions, CreditV1PoIInputs, RuleTimes)
    \/ HiringV2VerifyPoICall(HiringV2Decisions, HiringV2PoIInputs, PoITimes)
    \/ HiringV1VerifyPoICall(HiringV1Decisions, HiringV1PoIInputs, RuleTimes)
    \/ LegalVerifyPoICall(LegalDecisions, LegalPoIInputs, PoITimes)
    \/ GovernmentVerifyPoICall(GovernmentDecisions, GovernmentPoIInputs, PoITimes)
    \/ PermitV2VerifyPoICall(PermitV2Decisions, PermitV2PoIInputs, PoITimes)
    \/ PermitV1VerifyPoICall(PermitV1Decisions, PermitV1PoIInputs, RuleTimes)
    \/ CreateVerificationBundleCall(PoITimes)

SpecPoI == Init /\ [][NextPoI]_vars


---------------------------------------------------------------------------
(* Properties of the PoI result and of the bundle *)

HasPoI == op \in {"verifyPoI", "createVerificationBundle"}
HasBundle == op = "createVerificationBundle"

\* C2: the bundle createVerificationBundle returns has overall_result
\* "VERIFIED" exactly when poi.all_satisfied is true and the reason graph
\* has at least one edge, and "FAILED" in every other case
C2_OverallResult ==
    HasBundle =>
        /\ bundle.overall_result \in {"VERIFIED", "FAILED"}
        /\ bundle.overall_result = "VERIFIED"
             <=> (bundle.poi.all_satisfied /\ Len(bundle.por.graph.edges) >= 1)

\* a bundle whose constraints all hold and whose graph has no edge: FAILED
C2_Witness ==
    /\ HasBundle
    /\ bundle.poi.all_satisfied
    /\ Len(bundle.por.graph.edges) = 0
    /\ bundle.overall_result = "FAILED"

\* the conjunction of the satisfied flags of the mandatory rows
MandatoryRowsHold(results) ==
    \A i \in DOMAIN results : results[i].severity = "mandatory" => results[i].satisfied

WarningRows(results) == {i \in DOMAIN results : results[i].severity = "warning"}

\* C7: all_satisfied is the conjunction of the satisfied flags of the
\* mandatory rows, and the bundle's overall_result is decided by those rows
\* and the edge count alone: no warning row changes either
C7_WarningsNeverBlock ==
    /\ HasPoI => (poi.all_satisfied <=> MandatoryRowsHold(poi.results))
    /\ HasBundle =>
         (bundle.overall_result = "VERIFIED"
            <=> (MandatoryRowsHold(poi.results) /\ Len(por.graph.edges) >= 1))

\* a bundle that is VERIFIED although a warning row is not satisfied
C7_Witness ==
    /\ HasBundle
    /\ \E i \in WarningRows(poi.results) : ~poi.results[i].satisfied
    /\ poi.all_satisfied
    /\ bundle.overall_result = "VERIFIED"

\* the ids of the rows of a PoI result
RowIds(results) == {results[i].constraint[1] : i \in DOMAIN results}

\* the ids of the constraints a policy declares mandatory
MandatoryIds(policy) ==
    {policy.constraints[i].id :
        i \in {j \in DOMAIN policy.constraints : policy.constraints[j].severity = "mandatory"}}

\* C8: the PoI result has a row for every constraint that the engine's
\* policy declares mandatory
C8_EveryMandatoryConstraintChecked ==
    HasPoI => MandatoryIds(PolicyOf(engine)) \subseteq RowIds(poi.results)

\* C10: every row of severity warning has satisfied = true and carries a
\* boolean triggered field
C10_WarningRowsSatisfied ==
    HasPoI =>
        \A i \in WarningRows(poi.results) :
            /\ poi.results[i].satisfied = TRUE
            /\ "triggered" \in DOMAIN poi.results[i]
            /\ poi.results[i].triggered \in BOOLEAN


\* the consequent that the verifyPoI row of constraint id accepts in a decision
Consequent(eng, id, dec) ==
    CASE eng = "credit-2.0" /\ id \in {"F1", "F2"} -> dec.recommendation = "DENIED"
      [] eng = "credit-2.0" /\ id = "F4" -> dec.recommendation # "APPROVED"
      [] eng = "credit-2.0" /\ id = "F7" -> dec.risk_level = "HIGH"
      [] eng = "legal-1.0" /\ id \in {"L1", "L4", "L5"} -> dec.recommendation = "REJECTED"
      [] eng = "legal-1.0" /\ id = "L2" -> dec.non_compliant = TRUE
      [] eng = "legal-1.0" /\ id = "L3" -> dec.risk_level = "HIGH"
      [] eng = "legal-1.0" /\ id = "L6" -> dec.recommendation # "APPROVED"
      [] eng = "government-1.0" /\ id \in {"G1", "G2", "G4", "G7"} -> dec.recommendation = "REJECTED"
      [] eng = "government-1.0" /\ id = "G3" -> dec.status = "INCOMPLETE"
      [] eng = "government-1.0" /\ id = "G5" -> dec.tax_hold = TRUE
      [] eng = "permit-2.0" /\ id \in {"P1", "P2", "P8"} -> dec.recommendation = "DENIED"
      [] eng = "permit-2.0" /\ id = "P3" -> dec.environmental_review = TRUE
      [] eng = "permit-2.0" /\ id = "P4" -> dec.recommendation # "APPROVED"
      [] eng = "hiring-2.0" /\ id \in {"H1", "H3"} -> dec.recommendation = "NOT_RECOMMENDED"
      [] eng = "hiring-2.0" /\ id = "H4" -> dec.reference_concern = TRUE
      [] eng = "hiring-2.0" /\ id = "H7" -> dec.recommendation # "RECOMMENDED"
      [] eng = "medical-3.0" /\ id \in {"C1", "C7", "C8"} -> dec.priority = "HIGH"
      [] eng = "medical-3.0" /\ id \in {"C5", "C6"} -> dec.priority # "LOW"
      [] eng = "triage-2.1" /\ id = "C1" -> dec.priority = "HIGH"
      [] eng = "permit-1.0" /\ id \in {"G1", "G2", "G3", "G4"} -> dec.recommendation = "DENIED"
      [] eng = "hiring-1.0" /\ id \in {"E1", "E2"} -> dec.recommendation = "NOT_RECOMMENDED"
      [] eng = "credit-1.0" /\ id \in {"F1", "F2"} -> dec.recommendation = "DENIED"

\* the mandatory constraints that verifyPoI re-derives from a rule of the evaluator
GuardedIds(eng) ==
    CASE eng = "credit-2.0" -> {"F1", "F2", "F4", "F7"}
      [] eng = "legal-1.0" -> {"L1", "L2", "L3", "L4", "L5", "L6"}
      [] eng = "government-1.0" -> {"G1", "G2", "G3", "G4", "G5", "G7"}
      [] eng = "permit-2.0" -> {"P1", "P2", "P3", "P4", "P8"}
      [] eng = "hiring-2.0" -> {"H1", "H3", "H4", "H7"}
      [] eng = "medical-3.0" -> {"C1", "C5", "C6", "C7", "C8"}
      [] eng = "triage-2.1" -> {"C1"}
      [] eng = "permit-1.0" -> {"G1", "G2", "G3", "G4"}
      [] eng = "hiring-1.0" -> {"E1", "E2"}
      [] eng = "credit-1.0" -> {"F1", "F2"}

\* the Rule Evaluator's condition of rule id on input d: the triggered flag
\* the engine's evaluate function computes for it
RuleFired(eng, d, id) ==
    LET rules == EvaluateBy(eng, d, Today, Today).decision.allRules
    IN  \E i \in DOMAIN rules : rules[i].id = id /\ rules[i].triggered

RowUnsatisfied(results, id) ==
    \E i \in DOMAIN results : results[i].constraint[1] = id /\ ~results[i].satisfied

\* C9: for every (decision, input) pair, the row of a mandatory constraint
\* is reported unsatisfied exactly when the evaluator's rule fires on the
\* input and the decision lacks the consequent: verifyPoI's guards use the
\* evaluator's thresholds, comparisons and defaults
C9_GuardsMatchEvaluator ==
    op = "verifyPoI" =>
        \A id \in GuardedIds(engine) :
            RowUnsatisfied(poi.results, id)
                <=> (RuleFired(engine, input, id) /\ ~Consequent(engine, id, decision))


---------------------------------------------------------------------------
(* The evaluators at every reading of the wall clock *)

NextClock ==
    \/ EvaluateMedical(MedicalPoIInputs, Instants)
    \/ TriageDecision(TriagePoIInputs, Instants)
    \/ EvaluateCredit(CreditPoIInputs, Instants)
    \/ EvaluateCredit1(CreditV1PoIInputs, Instants)
    \/ EvaluateCandidate2(HiringV2PoIInputs, Instants)
    \/ EvaluateCandidate1(HiringV1PoIInputs, Instants)
    \/ EvaluateLegal(LegalPoIInputs, Instants)
    \/ EvaluateGovernment(GovernmentPoIInputs, Instants)
    \/ EvaluatePermit2(PermitV2PoIInputs, Instants)
    \/ EvaluatePermit1(PermitV1PoIInputs, Instants)

SpecClock == Init /\ [][NextClock]_vars

Evaluated == op \in {"evaluateMedical", "triageDecision", "evaluateCredit",
                     "evaluateCandidate", "evaluateLegal", "evaluateGovernment",
                     "evaluatePermit"}

\* the decision's timestamp is after the declaration as strings, and the
\* Temporal Precedence row of its PoI result says so
TemporalPrecedenceHolds ==
    /\ StrLt(PolicyOf(engine).declaration_timestamp, decision.timestamp)
    /\ \E i \in DOMAIN poi.results :
          /\ poi.results[i].constraint[2] = "Temporal Precedence"
          /\ poi.results[i].satisfied

\* C3 as stated: for every decision an evaluate function returns, at any
\* wall-clock reading, declaration_timestamp < decision.timestamp as strings
\* and the Temporal Precedence row is satisfied
C3_TemporalPrecedenceAtAnyReading ==
    Evaluated => TemporalPrecedenceHolds

\* the readings from the first full second after the declaration to the last
\* instant toISOString writes with a four-digit year
AfterDeclarationSecond(t) ==
    InstantLe(SecondAfterDeclaration, t) /\ InstantLe(t, EndOfYear9999)

\* Outside the declaration second and up to year 9999 the string
\* comparison agrees with the clock: a decision stamped in that window is
\* after the declaration and its Temporal Precedence row is satisfied
TemporalPrecedenceAfterDeclarationSecond ==
    (Evaluated /\ AfterDeclarationSecond(clock[1])) => TemporalPrecedenceHolds

\* a decision stamped half a second after the declaration, reported as before it
StampedInDeclarationSecond ==
    /\ Evaluated
    /\ clock[1] = DeclarationSecondLate
    /\ ~TemporalPrecedenceHolds


---------------------------------------------------------------------------
(* Properties of the rule evaluators *)

\* the rules of an engine that set the terminal negative outcome outright
HardRules(eng) ==
    CASE eng \in {"credit-2.0", "credit-1.0"} -> {"F1", "F2"}
      [] eng = "hiring-2.0" -> {"H1", "H3"}
      [] eng = "hiring-1.0" -> {"E1", "E2"}
      [] eng = "legal-1.0" -> {"L1", "L4", "L5"}
      [] eng = "government-1.0" -> {"G1", "G2", "G4", "G7"}
      [] eng = "permit-2.0" -> {"P1", "P2", "P8"}
      [] eng = "permit-1.0" -> {"G1", "G2", "G3", "G4"}
      [] OTHER -> {}

TerminalNegative(eng) ==
    CASE eng \in {"credit-2.0", "credit-1.0", "permit-2.0", "permit-1.0"} -> "DENIED"
      [] eng \in {"hiring-2.0", "hiring-1.0"} -> "NOT_RECOMMENDED"
      [] eng \in {"legal-1.0", "government-1.0"} -> "REJECTED"
      [] OTHER -> "none"

HardRuleFired ==
    \E i \in DOMAIN decision.allRules :
        /\ decision.allRules[i].id \in HardRules(engine)
        /\ decision.allRules[i].triggered

\* C4: when a hard deny / reject rule fired, the recommendation returned is
\* the terminal negative outcome of the engine, whatever the later rules,
\* the multi-trigger rule and the final adjustment did
C4_HardDenyWins ==
    (Evaluated /\ HardRuleFired) => decision.recommendation = TerminalNegative(engine)

\* a hard rule fired together with enough other rules for the multi-trigger
\* rule to fire as well
C4_Witness ==
    /\ Evaluated
    /\ engine \in {"credit-2.0", "hiring-2.0", "legal-1.0", "government-1.0", "permit-2.0"}
    /\ HardRuleFired
    /\ decision.triggered_rules >= 3
    /\ decision.recommendation = TerminalNegative(engine)

\* LOW < MEDIUM < HIGH; APPROVED, RECOMMENDED < review and conditional
\* outcomes < DENIED, REJECTED, NOT_RECOMMENDED
Severity(v) ==
    CASE v \in {"LOW", "APPROVED", "RECOMMENDED"} -> 0
      [] v \in {"MEDIUM", "MANUAL_REVIEW", "FURTHER_REVIEW", "CONDITIONAL_APPROVAL"} -> 1
      [] v \in {"HIGH", "DENIED", "REJECTED", "NOT_RECOMMENDED"} -> 2

\* C5: the value after the multi-trigger step is at least as severe as the
\* value the earlier rules had set
C5_MultiTriggerNeverLowers ==
    Evaluated => Severity(steps.after_multi) >= Severity(steps.before_multi)

\* three or more rules fired while the value was already at its highest level
C5_Witness ==
    /\ Evaluated
    /\ steps.multi # "none"
    /\ decision.triggered_rules >= 3
    /\ Severity(steps.before_multi) = 2
    /\ steps.after_multi = steps.before_multi

\* C6 as stated: the multi-trigger step changes the value only when it is
\* still at the neutral level (LOW, APPROVED, RECOMMENDED)
C6_MultiTriggerOnlyFromNeutral ==
    Evaluated =>
        (steps.after_multi # steps.before_multi => Severity(steps.before_multi) = 0)

\* C6 amended: C10, F10, H10, L10 and G10 change the value only when it is
\* still at the neutral level; P10 of the permit engine v2.0 sets DENIED
\* whenever three or more rules fired and the recommendation is not DENIED
\* yet, from CONDITIONAL_APPROVAL as well as from APPROVED
C6_MultiTriggerFromNeutralExceptPermit ==
    Evaluated =>
        IF steps.multi = "P10"
        THEN /\ steps.after_multi # steps.before_multi
                  => (steps.before_multi # "DENIED" /\ steps.after_multi = "DENIED")
             /\ (decision.triggered_rules >= 3) => steps.after_multi = "DENIED"
        ELSE steps.after_multi # steps.before_multi => Severity(steps.before_multi) = 0

\* P10 moving a CONDITIONAL_APPROVAL to DENIED
C6_Witness ==
    /\ Evaluated
    /\ steps.multi = "P10"
    /\ steps.before_multi = "CONDITIONAL_APPROVAL"
    /\ steps.after_multi = "DENIED"

---------------------------------------------------------------------------
(* computeMerkleRoot called directly, and the root of a bundle *)

MaxLeaves == 6

\* the digests a caller hands to computeMerkleRoot
LeafHashes == {Sha256("a"), Sha256("b")}

RECURSIVE LeafLists(_)
LeafLists(n) ==
    IF n = 0 THEN {<<>>}
    ELSE LeafLists(n - 1) \cup
         {Append(l, h) : l \in {m \in LeafLists(n - 1) : Len(m) = n - 1}, h \in LeafHashes}

\* one call computeMerkleRoot(hashes) of an engine module
ComputeMerkleRootCall(Engines) ==
    /\ op = "none"
    /\ \E eng \in Engines, hashes \in LeafLists(MaxLeaves) :
        /\ engine' = eng
        /\ op' = "computeMerkleRoot"
        /\ steps' = [hashes |-> hashes, root |-> ComputeMerkleRoot(hashes)]
        /\ UNCHANGED <<clock, input, decision, poo, por, poi, bundle, pooLog, history, stream>>

NextMerkle ==
    \/ ComputeMerkleRootCall({"credit-2.0"})
    \/ EvaluateCredit(CreditPoIInputs, RuleTimes)
    \/ TriageDecision(TriagePoIInputs, RuleTimes)
    \/ EvaluatePermit1(PermitV1PoIInputs, RuleTimes)

SpecMerkle == Init /\ [][NextMerkle]_vars

\* SHA256(a + b)
HashPair(a, b) == Sha256(<<a, b>>)

\* C11: computeMerkleRoot returns SHA256("empty") for the empty list, h for
\* [h], SHA256(a+b) for [a,b], and pairs an odd last element with itself at
\* every level; the merkle_root of a bundle is therefore
\* SHA256(SHA256(poo.hash + por.hash) + SHA256(poi.policy_hash + poi.policy_hash))
C11_MerkleRoot ==
    /\ op = "computeMerkleRoot" =>
        LET h == steps.hashes
            n == Len(h)
            root == steps.root
        IN  /\ n = 0 => root = Sha256("empty")
            /\ n = 1 => root = h[1]
            /\ n = 2 => root = HashPair(h[1], h[2])
            /\ n = 3 => root = HashPair(HashPair(h[1], h[2]), HashPair(h[3], h[3]))
            /\ n = 4 => root = HashPair(HashPair(h[1], h[2]), HashPair(h[3], h[4]))
            /\ n = 5 => root = HashPair(HashPair(HashPair(h[1], h[2]), HashPair(h[3], h[4])),
                                  HashPair(HashPair(h[5], h[5]), HashPair(h[5], h[5])))
            /\ n = 6 => root = HashPair(HashPair(HashPair(h[1], h[2]), HashPair(h[3], h[4])),
                                  HashPair(HashPair(h[5], h[6]), HashPair(h[5], h[6])))
            /\ n = 7 => root = HashPair(HashPair(HashPair(h[1], h[2]), HashPair(h[3], h[4])),
                                  HashPair(HashPair(h[5], h[6]), HashPair(h[7], h[7])))
    /\ Evaluated =>
        bundle.merkle_root = HashPair(HashPair(bundle.poo.hash, bundle.por.hash),
                                HashPair(bundle.poi.policy_hash, bundle.poi.policy_hash))

\* a five-leaf list, odd at the first level and at the second
C11_Witness ==
    /\ op = "computeMerkleRoot"
    /\ Len(steps.hashes) = 5
    /\ steps.hashes[5] # steps.hashes[4]
    /\ steps.root = HashPair(HashPair(HashPair(steps.hashes[1], steps.hashes[2]),
                          HashPair(steps.hashes[3], steps.hashes[4])),
                       HashPair(HashPair(steps.hashes[5], steps.hashes[5]),
                          HashPair(steps.hashes[5], steps.hashes[5])))

---------------------------------------------------------------------------
(* Outcomes of the medical engines *)

MedicalCall ==
    /\ op \in {"triageDecision", "evaluateMedical"}
    /\ engine \in {"triage-2.1", "medical-3.0"}

\* the patient record {vital_score: 0.3, age: 70, comorbidity_index: 0.7,
\* wait_time: 45, resource_score: 0.6}
IsLowVitalPatient(d) ==
    /\ d.vital_score = 30
    /\ d.age = 70
    /\ d.comorbidity_index = 70
    /\ d.wait_time = 45
    /\ d.resource_score = 60

\* C12: for every patient record with vital_score < 0.5, whatever its other
\* fields and category, triageDecision v2.1 and evaluateMedical v3.0 return
\* priority HIGH and critical true
C12_LowVitalIsHighAndCritical ==
    (MedicalCall /\ IsNum(input.vital_score) /\ input.vital_score < 50) =>
        /\ decision.priority = "HIGH"
        /\ decision.critical = TRUE

\* the record of the example, evaluated by the v3.0 engine with no category
\* given and nothing else set
C12_Witness ==
    /\ MedicalCall
    /\ engine = "medical-3.0"
    /\ IsLowVitalPatient(input)
    /\ input.category = "" /\ input.trauma_score = Undefined
    /\ input.complications = "undefined" /\ input.is_pregnant = "undefined"
    /\ decision.priority = "HIGH"
    /\ decision.critical = TRUE

---------------------------------------------------------------------------
(* Outcomes of the hiring engines *)

HiringCall ==
    /\ op = "evaluateCandidate"
    /\ engine \in {"hiring-1.0", "hiring-2.0"}

\* C13: the candidate {skill_match_score: 0.85, experience_years: 7,
\* interview_score: 0.9, reference_score: 0.8, education_level: 4}, no other
\* field given, is RECOMMENDED by evaluateCandidate of v1.0 and of v2.0
C13_StrongCandidateRecommended ==
    (HiringCall /\ input \in {StrongCandidate, StrongCandidateV2}) =>
        decision.recommendation = "RECOMMENDED"

\* the v2.0 engine on that candidate: OPERATIONS weights, composite 0.7158
C13_Witness ==
    /\ HiringCall
    /\ engine = "hiring-2.0"
    /\ input = StrongCandidateV2
    /\ decision.role_category = "OPERATIONS"
    /\ decision.composite_score = 7158
    /\ decision.recommendation = "RECOMMENDED"

\* the v1.0 engine on that candidate: composite 0.815
StrongCandidateV1Recommended ==
    /\ HiringCall
    /\ engine = "hiring-1.0"
    /\ input = StrongCandidate
    /\ steps.composite_clamped = 8150
    /\ decision.recommendation = "RECOMMENDED"

---------------------------------------------------------------------------
(* Outcomes of the permit engines *)

PermitCall ==
    /\ op = "evaluatePermit"
    /\ engine \in {"permit-1.0", "permit-2.0"}

\* C14: the project {zoning_compliance: 0.85, structural_safety: 0.9,
\* environmental_impact: 0.25, plot_coverage_ratio: 0.55, fire_safety_score: 0.8},
\* no other field given, is APPROVED by evaluatePermit of v1.0 and of v2.0
C14_SoundProjectApproved ==
    (PermitCall /\ input \in {SoundProject, SoundProjectV2}) =>
        decision.recommendation = "APPROVED"

\* the v1.0 engine on that project: no hard fail, permit score 0.775
C14_Witness ==
    /\ PermitCall
    /\ engine = "permit-1.0"
    /\ input = SoundProject
    /\ steps.permit_clamped = 7750
    /\ decision.recommendation = "APPROVED"

\* the v2.0 engine on that project: RESIDENTIAL weights, no rule fires
SoundProjectV2Approved ==
    /\ PermitCall
    /\ engine = "permit-2.0"
    /\ input = SoundProjectV2
    /\ decision.permit_type = "RESIDENTIAL"
    /\ decision.triggered_rules = 0
    /\ decision.recommendation = "APPROVED"

---------------------------------------------------------------------------
(* verifyPoI called a second time on the same decision and input *)

\* the engine's verifyPoI applied to (dec, d) while the clock reads now
VerifyPoIBy(eng, dec, d, now) ==
    CASE eng = "credit-2.0" -> CreditVerifyPoI(dec, d, now)
      [] eng = "legal-1.0" -> LegalVerifyPoI(dec, d, now)
      [] eng = "government-1.0" -> GovernmentVerifyPoI(dec, d, now)
      [] eng = "permit-2.0" -> PermitV2VerifyPoI(dec, d, now)
      [] eng = "hiring-2.0" -> HiringV2VerifyPoI(dec, d, now)
      [] eng = "medical-3.0" -> MedicalVerifyPoI(dec, d, now)
      [] eng = "triage-2.1" -> TriageVerifyPoI(dec, d, now)
      [] eng = "permit-1.0" -> PermitV1VerifyPoI(dec, d, now)
      [] eng = "hiring-1.0" -> HiringV1VerifyPoI(dec, d, now)
      [] eng = "credit-1.0" -> CreditV1VerifyPoI(dec, d, now)

\* verifyPoI(decision, input) once more, on the pair of the call before, at a
\* clock reading that is not earlier
VerifyPoIAgain(Times) ==
    /\ op = "verifyPoI"
    /\ Len(history) = 1
    /\ \E now \in Times :
        /\ InstantLe(clock[1], now)
        /\ Checked(engine, decision, input, VerifyPoIBy(engine, decision, input, now), now)

RepeatTimes == {Epoch, Today, Year10000}

NextRepeat ==
    \/ MedicalVerifyPoICall(MedicalDecisions, MedicalPoIInputs, {Today})
    \/ TriageVerifyPoICall(TriageDecisions, TriagePoIInputs, RepeatTimes)
    \/ CreditVerifyPoICall(CreditDecisions, CreditPoIInputs, {Today})
    \/ CreditV1VerifyPoICall(CreditV1Decisions, CreditV1PoIInputs, RepeatTimes)
    \/ HiringV2VerifyPoICall(HiringV2Decisions, HiringV2PoIInputs, {Today})
    \/ HiringV1VerifyPoICall(HiringV1Decisions, HiringV1PoIInputs, RepeatTimes)
    \/ LegalVerifyPoICall(LegalDecisions, LegalPoIInputs, {Today})
    \/ GovernmentVerifyPoICall(GovernmentDecisions, GovernmentPoIInputs, {Today})
    \/ PermitV2VerifyPoICall(PermitV2Decisions, PermitV2PoIInputs, {Today})
    \/ PermitV1VerifyPoICall(PermitV1Decisions, PermitV1PoIInputs, RepeatTimes)
    \/ VerifyPoIAgain(RepeatTimes)

SpecRepeat == Init /\ [][NextRepeat]_vars

\* two verifyPoI calls of one engine on the same (decision, input) pair
SamePair(a, b) ==
    /\ a.op = "verifyPoI" /\ b.op = "verifyPoI"
    /\ a.engine = b.engine
    /\ a.decision = b.decision
    /\ a.arg = b.arg

\* C15: two verifyPoI calls with the same (decision, input) pair return the
\* same results list and the same all_satisfied, whatever the time between
\* the calls
C15_VerifyPoIRepeatable ==
    \A i \in DOMAIN history : \A j \in DOMAIN history :
        SamePair(history[i], history[j]) =>
            /\ history[i].poi.results = history[j].poi.results
            /\ history[i].poi.all_satisfied = history[j].poi.all_satisfied

\* the same for decisions that carry a timestamp: the rows are computed from
\* the decision and the input alone
VerifyPoIRepeatableWithTimestamp ==
    \A i \in DOMAIN history : \A j \in DOMAIN history :
        (SamePair(history[i], history[j]) /\ history[i].decision.timestamp # <<>>) =>
            /\ history[i].poi.results = history[j].poi.results
            /\ history[i].poi.all_satisfied = history[j].poi.all_satisfied

\* a v1.0 verifyPoI call on a decision without timestamp made before and
\* again after the declaration: first rejected, then accepted
RepeatedCheckDisagrees ==
    /\ Len(history) = 2
    /\ SamePair(history[1], history[2])
    /\ history[1].decision.timestamp = <<>>
    /\ ~history[1].poi.all_satisfied
    /\ history[2].poi.all_satisfied

\* the same call made today and again in the year 10000: first accepted,
\* then rejected
RepeatedCheckDisagreesLater ==
    /\ Len(history) = 2
    /\ SamePair(history[1], history[2])
    /\ history[1].reads = <<Today>>
    /\ history[1].poi.all_satisfied
    /\ ~history[2].poi.all_satisfied

---------------------------------------------------------------------------
(* What an evaluate call leaves behind *)

EvaluateNames == {"evaluateMedical", "triageDecision", "evaluateCredit", "evaluateCandidate",
                  "evaluateLegal", "evaluateGovernment", "evaluatePermit"}

---------------------------------------------------------------------------
(* The clock readings of an evaluate call *)

\* C17: an evaluate call reads the wall clock exactly once, after all rules
\* have been evaluated, and that reading is decision.timestamp
C17_ClockReadOnceAtTheEnd ==
    Evaluated =>
        /\ Len(clock) = 1
        /\ ReadPoints[1] = "after the rules"
        /\ decision.timestamp = ToISOString(clock[1])

\* what the evaluators do: five readings, decision.timestamp is the first,
\* taken on entry; the proofs carry the later ones
TimestampIsFirstReading ==
    Evaluated =>
        /\ Len(clock) = 5
        /\ ReadPoints[1] = "before the rules"
        /\ decision.timestamp = ToISOString(clock[1])
        /\ poi.verification_time = ToISOString(clock[3])
        /\ bundle.created_at = ToISOString(clock[5])

\* an evaluation whose bundle is stamped later than its decision
BundleStampedLater ==
    /\ Evaluated
    /\ decision.timestamp = ToISOString(Epoch)
    /\ bundle.created_at = ToISOString(Today)
    /\ bundle.poi.verification_time = ToISOString(Today)

---------------------------------------------------------------------------
(* Several calls in one process, to any engine, in any order *)

MaxSession == 2

AllEngines == {"credit-2.0", "legal-1.0", "government-1.0", "permit-2.0", "hiring-2.0",
               "medical-3.0", "triage-2.1", "permit-1.0", "hiring-1.0", "credit-1.0"}

\* the name of the engine's evaluate function
EvaluateName(eng) ==
    CASE eng = "credit-2.0" -> "evaluateCredit"
      [] eng = "legal-1.0" -> "evaluateLegal"
      [] eng = "government-1.0" -> "evaluateGovernment"
      [] eng = "permit-2.0" -> "evaluatePermit"
      [] eng = "hiring-2.0" -> "evaluateCandidate"
      [] eng = "medical-3.0" -> "evaluateMedical"
      [] eng = "triage-2.1" -> "triageDecision"
      [] eng = "permit-1.0" -> "evaluatePermit"
      [] eng = "hiring-1.0" -> "evaluateCandidate"
      [] eng = "credit-1.0" -> "evaluateCredit"

\* the records the calls of a session are made on
SessionInputs(eng) ==
    CASE eng = "credit-2.0" ->
            {d \in CreditPoIInputs :
                /\ d.credit_score \in {450, 700} /\ d.debt_to_income = Undefined
                /\ d.loan_amount = Undefined /\ d.bankruptcy_history = "undefined"}
      [] eng = "legal-1.0" ->
            {d \in LegalPoIInputs :
                /\ d.contract_validity = Undefined /\ d.regulatory_compliance = 70
                /\ d.liability_exposure = 80 /\ d.evidence_score = 60
                /\ d.jurisdiction_recognized = "undefined" /\ d.within_statute = "true"}
      [] eng = "government-1.0" ->
            {d \in GovernmentPoIInputs :
                /\ d.identity_verified = "true" /\ d.eligibility_score = 30
                /\ d.documentation_score = 70 /\ d.residency_verified = "true"
                /\ d.requires_residency = "undefined" /\ d.tax_compliant = "true"
                /\ d.duplicate_detected = "undefined"}
      [] eng = "permit-2.0" -> {SoundProjectV2}
      [] eng = "hiring-2.0" -> {StrongCandidateV2}
      [] eng = "medical-3.0" ->
            {d \in MedicalPoIInputs :
                /\ d.vital_score \in {30, 80} /\ d.age = 40 /\ d.comorbidity_index = Undefined
                /\ d.wait_time = 20 /\ d.resource_score = Undefined
                /\ d.trauma_score = Undefined /\ d.complications = "undefined"}
      [] eng = "triage-2.1" ->
            {d \in TriagePoIInputs : d.vital_score \in {30, 80} /\ d.wait_time = 90}
      [] eng = "permit-1.0" -> {SoundProject}
      [] eng = "hiring-1.0" -> {StrongCandidate}
      [] eng = "credit-1.0" ->
            {d \in CreditV1PoIInputs :
                d.credit_score = 500 /\ d.annual_income = 50000 /\ d.debt_to_income = 60}

\* the decisions handed to verifyPoI in a session
SessionDecisions(eng) ==
    CASE eng = "triage-2.1" ->
            {dec \in TriageDecisions :
                /\ dec.priority = "HIGH" /\ dec.reassessment
                /\ dec.timestamp = ToISOString(Today)}
      [] eng = "permit-1.0" ->
            {dec \in PermitV1Decisions :
                dec.recommendation = "APPROVED" /\ dec.timestamp = ToISOString(Today)}
      [] OTHER -> {}

\* the clock during the calls of a session: the first reading of a call and
\* its later readings
SessionReads == {<<Epoch, Today>>, <<Today, Year10000>>}

\* one more evaluate call, to any engine
SessionEvaluate(Engines) ==
    /\ Len(history) < MaxSession
    /\ \E eng \in Engines, t \in SessionReads :
        \E d \in SessionInputs(eng) :
            Returned(eng, EvaluateName(eng), d, EvaluateBy(eng, d, t[1], t[2]),
                     Reads(t[1], t[2]))

\* one more verifyPoI call
SessionVerifyPoI(Engines) ==
    /\ Len(history) < MaxSession
    /\ \E eng \in Engines, t \in SessionReads :
        \E dec \in SessionDecisions(eng), d \in SessionInputs(eng) :
            Checked(eng, dec, d, VerifyPoIBy(eng, dec, d, t[1]), t[1])

NextSession ==
    \/ SessionEvaluate(AllEngines)
    \/ SessionVerifyPoI({"triage-2.1", "permit-1.0"})
    \/ CreateVerificationBundleCall({Today})

SpecSession == Init /\ [][NextSession]_vars

---------------------------------------------------------------------------
(* The policy hash over a session *)

\* what the load-time block of an engine module stores in its policy object
LoadedPolicy(eng) ==
    [policy_hash |-> PolicyHash(PolicyOf(eng)),
     authority_signature |-> HmacSha256(POO_SECRET, PolicyHash(PolicyOf(eng)))]

HasBundleEntry(call) == call.op \in EvaluateNames \cup {"createVerificationBundle"}

---------------------------------------------------------------------------
(* Evaluations of one session do not influence one another *)

\* two evaluate calls of one engine on the same input record
SameCall(a, b) ==
    /\ a.op \in EvaluateNames /\ b.op \in EvaluateNames
    /\ a.engine = b.engine
    /\ a.arg = b.arg

\* the decision without its timestamp: outcome, flags, scores, reasons, allRules
Outcome(dec) == [dec EXCEPT !.timestamp = <<>>]

EvaluatedAfterAnotherEngine ==
    /\ Len(history) = 2
    /\ history[1].op \in EvaluateNames /\ history[2].op \in EvaluateNames
    /\ history[1].engine # history[2].engine
    /\ history[2].decision =
          EvaluateBy(history[2].engine, history[2].arg,
                     history[2].reads[1], history[2].reads[2]).decision

---------------------------------------------------------------------------
(* Fields that are not numbers *)

\* the engines that coerce every field they read with Number()
CoercingEngines == {"permit-1.0", "hiring-1.0", "credit-1.0"}

\* the fields of d that Number() turns into NaN
UnparsableFields(d) == {f \in DOMAIN d : Number(d[f]) = NaN}

\* C20: when a numeric field cannot be parsed as a number the evaluate call
\* fails with an InvalidInputError and returns no decision: a call that
\* returned a decision and a bundle had no such field
C20_UnparsableFieldRejected ==
    (Evaluated /\ engine \in CoercingEngines) => UnparsableFields(input) = {}

\* evaluatePermit of v1.0 on a record without zoning_compliance: a decision
\* and a bundle are returned, computed from NaN
DecisionFromNaN ==
    /\ Evaluated
    /\ engine = "permit-1.0"
    /\ UnparsableFields(input) = {"zoning_compliance"}
    /\ steps.permit_clamped = NaN
    /\ decision.recommendation = "DENIED"
    /\ bundle.overall_result \in {"VERIFIED", "FAILED"}

---------------------------------------------------------------------------
(* Shape of the reason graphs *)

VertexIds(g) == {g.vertices[i].id : i \in DOMAIN g.vertices}
EdgePairs(g) == {<<g.edges[i][1], g.edges[i][2]>> : i \in DOMAIN g.edges}

\* no directed cycle: edges into a vertex without outgoing edge are removed
\* until none is left
RECURSIVE Acyclic(_)
Acyclic(E) ==
    IF E = {} THEN TRUE
    ELSE LET inner == {e \in E : \E f \in E : f[1] = e[2]}
         IN  IF inner = E THEN FALSE ELSE Acyclic(inner)

\* C21: every reason graph an engine produces is a directed acyclic graph
\* over its own vertices: both ends of every edge are ids of vertices of
\* that graph and the edges contain no directed cycle
C21_ReasonGraphIsDag ==
    Evaluated =>
        /\ \A e \in EdgePairs(por.graph) :
              e[1] \in VertexIds(por.graph) /\ e[2] \in VertexIds(por.graph)
        /\ Acyclic(EdgePairs(por.graph))

\* the MATERNAL variant of the medical graph, with its C8 vertex and edges
C21_Witness ==
    /\ Evaluated
    /\ engine = "medical-3.0"
    /\ decision.category = "MATERNAL"
    /\ "r9" \in VertexIds(por.graph)
    /\ <<"r9", "c3">> \in EdgePairs(por.graph)
    /\ Acyclic(EdgePairs(por.graph))

\* the other variants: TRAUMA (medical), MORTGAGE (credit), heritage zone (permit)
TraumaGraphIsDag ==
    /\ Evaluated /\ engine = "medical-3.0" /\ decision.category = "TRAUMA"
    /\ <<"p7", "r7">> \in EdgePairs(por.graph)
    /\ Acyclic(EdgePairs(por.graph))
HeritageGraphIsDag ==
    /\ Evaluated /\ engine = "permit-2.0"
    /\ "p9" \in VertexIds(por.graph)
    /\ Acyclic(EdgePairs(por.graph))


VertexType(g, id) ==
    LET hits == {i \in DOMAIN g.vertices : g.vertices[i].id = id}
    IN  IF hits = {} THEN "" ELSE g.vertices[CHOOSE i \in hits : TRUE].type

RuleVertices(g) == {g.vertices[i].id : i \in {j \in DOMAIN g.vertices : g.vertices[j].type = "rule"}}

\* the rule vertices of g without an edge into a conclusion vertex
DanglingRules(g) ==
    {r \in RuleVertices(g) :
        ~\E e \in EdgePairs(g) : e[1] = r /\ VertexType(g, e[2]) = "conclusion"}

\* C22: in every reason graph each vertex of type rule has at least one
\* outgoing edge to a vertex of type conclusion
C22_EveryRuleReachesConclusion ==
    Evaluated => DanglingRules(por.graph) = {}

\* the medical graph of a patient outside the TRAUMA category: the C5, C6
\* and C7 vertices have no edge to any conclusion
MedicalRulesDangle ==
    /\ Evaluated
    /\ engine = "medical-3.0"
    /\ decision.category = "GENERAL"
    /\ DanglingRules(por.graph) = {"r5", "r6", "r7"}

\* the triage v2.1 graph: the age and comorbidity rules lead nowhere
TriageRulesDangle ==
    /\ Evaluated
    /\ engine = "triage-2.1"
    /\ DanglingRules(por.graph) = {"r3", "r4"}

\* the engines whose graphs do satisfy the property
EnginesWithoutDanglingRules ==
    (Evaluated /\ engine \in {"credit-2.0", "legal-1.0", "government-1.0", "permit-2.0",
                               "hiring-2.0"}) =>
        DanglingRules(por.graph) = {}

---------------------------------------------------------------------------
(* Urgency of the medical decisions *)

\* the triggered flag of rule id in the decision's allRules
Triggered(dec, id) ==
    \E i \in DOMAIN dec.allRules : dec.allRules[i].id = id /\ dec.allRules[i].triggered

\* C23: in every decision of the medical engines urgency is IMMEDIATE
\* exactly when the returned critical flag is true and wait_time > 30, and
\* R-URGENCY is marked triggered under exactly that condition, whichever
\* rule set critical
C23_UrgencyFollowsCritical ==
    MedicalCall =>
        LET due == decision.critical /\ Gt(input.wait_time, 30)
        IN  /\ decision.urgency = "IMMEDIATE" <=> due
            /\ Triggered(decision, "R-URGENCY") <=> due

\* a trauma patient with good vitals who has waited 45 minutes: critical
\* (set by C7) but STANDARD urgency
CriticalButStandard ==
    /\ MedicalCall
    /\ engine = "medical-3.0"
    /\ input.vital_score = 80 /\ input.trauma_score = 80 /\ input.wait_time = 45
    /\ decision.critical
    /\ decision.urgency = "STANDARD"
    /\ ~Triggered(decision, "R-URGENCY")

\* urgency follows the critical flag as C1 alone sets it
UrgencyFollowsVitalScore ==
    MedicalCall =>
        LET due == Lt(input.vital_score, 50) /\ Gt(input.wait_time, 30)
        IN  /\ decision.urgency = "IMMEDIATE" <=> due
            /\ Triggered(decision, "R-URGENCY") <=> due

---------------------------------------------------------------------------
(* The flag rules H7 (hiring v2.0) and G6 (government) *)

\* the input condition of H7, respectively G6, holds
FlagRaised ==
    \/ /\ engine = "hiring-2.0" /\ op = "evaluateCandidate"
       /\ IsTrue(input.background_flagged)
    \/ /\ engine = "government-1.0" /\ op = "evaluateGovernment"
       /\ IsTrue(input.criminal_flagged) /\ IsTrue(input.requires_clearance)

\* C24 as stated: whenever background_flagged is true the v2.0 hiring engine
\* returns FURTHER_REVIEW, and whenever criminal_flagged and
\* requires_clearance are true the government engine returns FURTHER_REVIEW
C24_FlagGivesFurtherReview ==
    FlagRaised => decision.recommendation = "FURTHER_REVIEW"

\* C24 amended: a raised flag gives FURTHER_REVIEW unless a hard rule of the
\* engine fired, in which case the terminal negative outcome stays; the
\* neutral outcome is never returned
C24_FlagGivesFurtherReviewUnlessHardRule ==
    FlagRaised =>
        /\ decision.recommendation =
              IF HardRuleFired THEN TerminalNegative(engine) ELSE "FURTHER_REVIEW"
        /\ Triggered(decision, IF engine = "hiring-2.0" THEN "H7" ELSE "G6")

\* a flagged candidate whose skill match is below the floor: H1 and H7 both
\* fire and the candidate is NOT_RECOMMENDED
C24_Witness ==
    /\ FlagRaised
    /\ engine = "hiring-2.0"
    /\ Triggered(decision, "H1")
    /\ Triggered(decision, "H7")
    /\ decision.recommendation = "NOT_RECOMMENDED"

\* a flagged applicant with no hard rule fired: FURTHER_REVIEW
FlaggedApplicantReviewed ==
    /\ FlagRaised
    /\ engine = "government-1.0"
    /\ ~HardRuleFired
    /\ decision.recommendation = "FURTHER_REVIEW"


-----------------------------------------------------------------------------
\* C25 - recommendation-assigning rules behind every non-neutral outcome

RecommendationRules(eng) ==
    CASE eng = "credit-2.0" -> {"F1", "F2", "F4", "F6", "F10"}
      [] eng = "legal-1.0" -> {"L1", "L4", "L5", "L6"}
      [] eng = "hiring-2.0" -> {"H1", "H2", "H3", "H4", "H5", "H7", "H10"}
      [] OTHER -> {}

NeutralOutcome(eng) == IF eng = "hiring-2.0" THEN "RECOMMENDED" ELSE "APPROVED"

NonNeutralReturned ==
    /\ Evaluated
    /\ engine \in {"credit-2.0", "legal-1.0", "hiring-2.0"}
    /\ decision.recommendation # NeutralOutcome(engine)

\* C25: whenever the v2.0 credit engine, the legal engine or the v2.0 hiring
\* engine returns a recommendation other than its neutral one, allRules marks
\* as triggered at least one rule whose step assigns recommendation.
C25_NonNeutralHasAssigningRule ==
    NonNeutralReturned =>
        \E id \in RecommendationRules(engine) : Triggered(decision, id)

\* The closing adjustment of the credit engine moves APPROVED to MANUAL_REVIEW
\* on risk level HIGH alone: a bankrupt applicant with no assigning rule.
ReviewedOnRiskLevelAlone ==
    /\ NonNeutralReturned
    /\ engine = "credit-2.0"
    /\ decision.recommendation = "MANUAL_REVIEW"
    /\ decision.risk_level = "HIGH"
    /\ \A id \in RecommendationRules(engine) : ~Triggered(decision, id)

\* Without the closing adjustment (risk level below HIGH) the statement holds
\* in the credit and the legal engine.
NonNeutralHasAssigningRuleBelowHighRisk ==
    (NonNeutralReturned /\ engine # "hiring-2.0" /\ decision.risk_level # "HIGH")
        => \E id \in RecommendationRules(engine) : Triggered(decision, id)

\* The same closing adjustment in the legal engine: liability exposure alone.
LegalReviewedOnRiskLevelAlone ==
    /\ NonNeutralReturned
    /\ engine = "legal-1.0"
    /\ decision.recommendation = "FURTHER_REVIEW"
    /\ \A id \in RecommendationRules(engine) : ~Triggered(decision, id)

\* The hiring engine's tier check after H10 does the same.
HiringDowngradedOnTierAlone ==
    /\ NonNeutralReturned
    /\ engine = "hiring-2.0"
    /\ \A id \in RecommendationRules(engine) : ~Triggered(decision, id)



-----------------------------------------------------------------------------
\* C26 - the evaluator's own decision passes its own compliance check

(* Records with every field the evaluator reads present, a number in its
   documented range or a boolean; the type fields that are read only when the
   explicit type is absent stay absent *)

Flags == {"false", "true"}

WellFormedMedical ==
    {d \in [category : {"", "maternal", "trauma"},
            vital_score : {30, 55, 80},
            age : {8, 40, 70},
            comorbidity_index : {30, 70},
            wait_time : {20, 90},
            resource_score : {20, 60},
            trauma_score : {0, 55, 80},
            is_pregnant : Flags,
            pregnancy_week : {0, 30},
            complications : Flags] :
        (d.pregnancy_week = 0) <=> (d.is_pregnant = "false")}

WellFormedTriage == {d \in TriageInputs : \A f \in DOMAIN d : IsNum(d[f])}

WellFormedCredit ==
    [loan_type : {"mortgage"},
     credit_score : {450, 700},
     debt_to_income : {30, 60},
     annual_income : {15000, 60000},
     loan_amount : {100000, 250200},
     employment_years : {0, 5},
     collateral_ratio : {50, 90},
     bankruptcy_history : Flags,
     payment_history_score : {30, 90},
     credit_utilization : {30, 90},
     business_revenue : {Undefined},
     vehicle_value : {Undefined},
     tuition_amount : {Undefined}]

WellFormedCreditV1 == {d \in CreditV1Inputs : \A f \in DOMAIN d : IsNum(d[f])}

WellFormedLegal ==
    [case_type : {"contract"},
     contract_validity : {30, 80},
     regulatory_compliance : {40, 80},
     liability_exposure : {30, 80},
     evidence_score : {20, 60},
     precedent_alignment : {30, 60},
     jurisdiction_recognized : Flags,
     within_statute : Flags,
     conflict_of_interest : Flags,
     financial_exposure : {50000, 200000},
     financial_threshold : {100000}]

WellFormedGovernment ==
    [service_type : {"license"}, license_type : {"driver"}, benefit_type : {""},
     permit_type : {""}, registration_type : {""},
     identity_verified : Flags,
     eligibility_score : {30, 80},
     documentation_score : {40, 80},
     residency_verified : Flags,
     requires_residency : Flags,
     tax_compliant : Flags,
     criminal_flagged : Flags,
     requires_clearance : {"true"},
     duplicate_detected : Flags,
     service_capacity : {10, 80},
     priority_group : {"false"}]

WellFormedPermitV2 ==
    [permit_type : {"renovation"},
     industrial_category : {""}, commercial_area : {Undefined},
     renovation_scope : {""}, infrastructure_class : {""},
     zoning_compliance : {30, 80},
     structural_safety : {40, 80},
     environmental_impact : {30, 80},
     fire_safety_score : {40, 80},
     plot_coverage_ratio : {50, 90},
     accessibility_score : {70},
     utility_capacity : {20, 70},
     heritage_zone : Flags,
     heritage_compliance : {50, 80},
     traffic_impact : {30, 80}]

WellFormedPermitV1 == {d \in PermitV1Inputs : \A f \in DOMAIN d : IsNum(d[f])}

WellFormedHiringV2 ==
    [role_category : {"technical"}, technical_score : {80}, leadership_score : {Undefined},
     portfolio_score : {Undefined},
     skill_match_score : {20, 90},
     experience_years : {1, 10},
     interview_score : {20, 90},
     reference_score : {20, 80},
     education_level : {2, 4},
     cultural_fit_score : {20, 80},
     background_flagged : Flags,
     salary_expectation : {90000, 130000},
     salary_budget : {100000},
     requires_degree : Flags,
     role_level : {"SENIOR"},
     diversity_enabled : {"false"}]

WellFormedHiringV1 == {d \in HiringV1Inputs : \A f \in DOMAIN d : IsNum(d[f])}

\* readings of the wall clock later than the declaration 2024-11-15T09:00:00Z
LaterReadings == {DeclarationSecondLate, Today, Year10000}

NextWellFormed ==
    \/ EvaluateMedical(WellFormedMedical, LaterReadings)
    \/ TriageDecision(WellFormedTriage, LaterReadings)
    \/ EvaluateCredit(WellFormedCredit, LaterReadings)
    \/ EvaluateCredit1(WellFormedCreditV1, LaterReadings)
    \/ EvaluateCandidate2(WellFormedHiringV2, LaterReadings)
    \/ EvaluateCandidate1(WellFormedHiringV1, LaterReadings)
    \/ EvaluateLegal(WellFormedLegal, LaterReadings)
    \/ EvaluateGovernment(WellFormedGovernment, LaterReadings)
    \/ EvaluatePermit2(WellFormedPermitV2, LaterReadings)
    \/ EvaluatePermit1(WellFormedPermitV1, LaterReadings)

SpecWellFormed == Init /\ [][NextWellFormed]_vars

LastReads == history[Len(history)].reads

ReadAfterDeclaration ==
    /\ history # <<>>
    /\ \A i \in DOMAIN LastReads :
          LastReads[i] # DeclarationSecond /\ InstantLe(DeclarationSecond, LastReads[i])

\* C26: for every input whose fields are all present in their documented
\* types and ranges and every clock reading later than the policy
\* declaration, the bundle the evaluator returns has poi.all_satisfied true
\* and overall_result "VERIFIED", whether the decision is favourable or not.
C26_OwnDecisionVerified ==
    (Evaluated /\ ReadAfterDeclaration) =>
        /\ poi.all_satisfied
        /\ bundle.overall_result = "VERIFIED"

\* a denial on a well-formed input, half a second after the declaration: the
\* mandatory rule rows hold and the bundle is FAILED on Temporal Precedence
DenialFailedHalfSecondLater ==
    /\ Evaluated /\ ReadAfterDeclaration
    /\ engine = "credit-2.0"
    /\ decision.recommendation = "DENIED"
    /\ LastReads[1] = DeclarationSecondLate
    /\ ~poi.all_satisfied
    /\ bundle.overall_result = "FAILED"

ReadInFourDigitYears ==
    /\ history # <<>>
    /\ \A i \in DOMAIN LastReads :
          /\ InstantLe(SecondAfterDeclaration, LastReads[i])
          /\ InstantLe(LastReads[i], EndOfYear9999)

\* from the second after the declaration to the end of year 9999 the
\* statement holds on every well-formed input
OwnDecisionVerifiedInFourDigitYears ==
    (Evaluated /\ ReadInFourDigitYears) =>
        /\ poi.all_satisfied
        /\ bundle.overall_result = "VERIFIED"

DenialVerifiedToday ==
    /\ Evaluated /\ ReadInFourDigitYears
    /\ engine = "credit-2.0"
    /\ decision.recommendation = "DENIED"
    /\ bundle.overall_result = "VERIFIED"


-----------------------------------------------------------------------------
\* C27 - triggered_rules against the triggered flags of allRules

TenRuleEngines == {"medical-3.0", "credit-2.0", "hiring-2.0", "legal-1.0",
                   "government-1.0", "permit-2.0"}

MultiTriggerRule(eng) ==
    CASE eng = "medical-3.0" -> "C10"
      [] eng = "credit-2.0" -> "F10"
      [] eng = "hiring-2.0" -> "H10"
      [] eng = "legal-1.0" -> "L10"
      [] eng = "government-1.0" -> "G10"
      [] eng = "permit-2.0" -> "P10"
      [] OTHER -> ""

\* the number of allRules entries marked triggered, the rules of skip left out
TriggeredEntries(dec, skip) ==
    Cardinality({i \in DOMAIN dec.allRules :
                    dec.allRules[i].triggered /\ dec.allRules[i].id \notin skip})

TenRuleDecision == Evaluated /\ engine \in TenRuleEngines

\* C27: in every decision of a 10-rule engine, triggered_rules equals the
\* number of allRules entries, other than the multi-trigger rule itself,
\* whose triggered flag is true.
C27_TriggeredRulesCountsAllRules ==
    TenRuleDecision =>
        decision.triggered_rules = TriggeredEntries(decision, {MultiTriggerRule(engine)})

\* C27, amended: the hiring engine's process rule H9 (diversity) is marked
\* in allRules but never counted; every other entry is counted once.
C27_TriggeredRulesCountsConcerns ==
    TenRuleDecision =>
        decision.triggered_rules =
            TriggeredEntries(decision, {MultiTriggerRule(engine), "H9"})

\* a candidate with diversity_enabled and two concerns: H9 marked, count 2
C27_Witness ==
    /\ TenRuleDecision
    /\ engine = "hiring-2.0"
    /\ Triggered(decision, "H9")
    /\ decision.triggered_rules = 2
    /\ TriggeredEntries(decision, {"H10"}) = 3
    /\ ~Triggered(decision, "H10")

\* the count of an engine without a process rule: four credit rules fired
FourCreditRulesCounted ==
    /\ TenRuleDecision
    /\ engine = "credit-2.0"
    /\ decision.triggered_rules = 4
    /\ Triggered(decision, "F10")


-----------------------------------------------------------------------------
\* C28 - maternal safety

PregnantWithComplications ==
    /\ engine = "medical-3.0" /\ op = "evaluateMedical"
    /\ (IsTrue(input.is_pregnant) \/ Gt(input.pregnancy_week, 0))
    /\ IsTrue(input.complications)

\* C28: every patient record with is_pregnant true (or a pregnancy_week) and
\* complications true is returned by evaluateMedical with priority HIGH,
\* whatever its trauma_score, age or explicitly supplied category.
C28_MaternalComplicationsHigh ==
    PregnantWithComplications => decision.priority = "HIGH"

\* a pregnant patient with complications and a trauma_score of 0.55, no
\* category supplied: classified TRAUMA, C8 not evaluated, priority LOW
PregnantTraumaPatientLow ==
    /\ PregnantWithComplications
    /\ input.category = ""
    /\ input.trauma_score = 55
    /\ decision.category = "TRAUMA"
    /\ ~Triggered(decision, "C8")
    /\ decision.priority = "LOW"

\* the same with the category supplied by the caller
PregnantPatientSentAsTraumaLow ==
    /\ PregnantWithComplications
    /\ input.category = "trauma"
    /\ input.trauma_score = 0
    /\ ~Triggered(decision, "C8")
    /\ decision.priority = "LOW"

\* when the record is classified MATERNAL the rule fires and priority is HIGH
MaternalCategoryComplicationsHigh ==
    (PregnantWithComplications /\ decision.category = "MATERNAL") =>
        /\ Triggered(decision, "C8")
        /\ decision.priority = "HIGH"
        /\ decision.critical


-----------------------------------------------------------------------------
\* C29 - the v1.0 permit recommendation against the reported permit_score

NoHardRuleFails ==
    /\ engine = "permit-1.0" /\ op = "evaluatePermit"
    /\ \A id \in {"G1", "G2", "G3", "G4"} : ~Triggered(decision, id)
    /\ IsNum(decision.permit_score)

\* the recommendation the thresholds give for a score in hundredths
BandOf(score) ==
    IF score >= 70 THEN "APPROVED"
    ELSE IF score >= 50 THEN "CONDITIONAL_APPROVAL"
    ELSE "DENIED"

\* C29: for every v1.0 permit decision in which none of G1-G4 fails, the
\* recommendation agrees with decision.permit_score: APPROVED iff it is at
\* least 0.70, CONDITIONAL_APPROVAL iff 0.50 <= score < 0.70, DENIED iff it
\* is below 0.50.
C29_RecommendationAgreesWithReportedScore ==
    NoHardRuleFails => decision.recommendation = BandOf(decision.permit_score)

\* zoning 0.60, structural 0.70, environmental 0.30, coverage 0.30, fire 0.85:
\* the score 0.6975 is reported as 0.70 and the permit is conditional
ConditionalAtReportedSeventy ==
    /\ NoHardRuleFails
    /\ steps.permit_clamped = 6975
    /\ decision.permit_score = 70
    /\ decision.recommendation = "CONDITIONAL_APPROVAL"

\* the recommendation agrees with the score before it is rounded
RecommendationAgreesWithUnroundedScore ==
    NoHardRuleFails =>
        decision.recommendation =
            (IF steps.permit_clamped >= 7000 THEN "APPROVED"
             ELSE IF steps.permit_clamped >= 5000 THEN "CONDITIONAL_APPROVAL"
             ELSE "DENIED")


-----------------------------------------------------------------------------
\* C30 - the daily limits of /api/ai/stream under concurrent requests

Plan(registered) == IF registered THEN "free" ELSE "guest"
Caller(registered) == IF registered THEN "registered" ELSE "guest"
AddressOf(registered) == IF registered THEN UserAddress ELSE GuestAddress

\* getGuestUsage(req): the map after the call, a fresh entry stored when the
\* key has none or its date is not today
GetGuestUsage(map, key) ==
    IF map[key] = NoEntry \/ map[key].date # UtcDay
    THEN [map EXCEPT ![key] = [count |-> 0, date |-> UtcDay]]
    ELSE map

\* The guest's counter (a map entry under the guest's address) and the
\* user's (the row, and the entry under the user's address) share nothing:
\* the requests of one day are explored for one caller at a time.
OnlyCaller(registered) ==
    /\ stream.served[Caller(~registered)] = 0
    /\ \A t \in Slots : stream.requests[t].pc # "idle"
                            => stream.requests[t].registered = registered

\* optionalAuth: a request arrives in slot s; with a valid token req.user is
\* the user's row as SELECTed now, without one the request goes on as a guest
OptionalAuth(s, Callers, ConversationIds) ==
    /\ stream.requests[s].pc = "idle"
    /\ \E registered \in Callers, conversation_id \in ConversationIds :
        /\ OnlyCaller(registered)
        /\ stream.served[Caller(registered)]
              < PLAN_LIMITS[Plan(registered)].messages_per_day + MaxOverrun
        /\ stream' = [stream EXCEPT !.requests[s] =
                         [pc |-> "handler", registered |-> registered,
                          conversation_id |-> conversation_id,
                          messages_today |-> IF registered THEN stream.messages_today
                                            ELSE Undefined]]
    /\ UNCHANGED <<clock, engine, op, input, decision, steps, poo, por, poi, bundle,
                   pooLog, history>>

\* checkUsageLimit(req.user, req) in the handler: 429 when the count the
\* request sees has reached the plan's limit, else the stream is opened
CheckUsageLimit(s) ==
    /\ stream.requests[s].pc = "handler"
    /\ LET r == stream.requests[s]
           map == IF r.registered THEN stream.guestUsage
                  ELSE GetGuestUsage(stream.guestUsage, GuestAddress)
           seen == IF r.registered THEN r.messages_today ELSE map[GuestAddress].count
           allowed == ~(seen >= PLAN_LIMITS[Plan(r.registered)].messages_per_day)
       IN  stream' = [stream EXCEPT
                         !.guestUsage = map,
                         !.requests[s] = IF allowed THEN [r EXCEPT !.pc = "streaming"]
                                         ELSE IdleRequest,
                         !.refused[Caller(r.registered)] = @ \/ ~allowed]
    /\ UNCHANGED <<clock, engine, op, input, decision, steps, poo, por, poi, bundle,
                   pooLog, history>>

\* the end of the handler, after the model's stream was written out: the
\* user's row is incremented when the request has both a user and a
\* conversation_id, in every other case the guestUsage entry of the address
FinishStream(s) ==
    /\ stream.requests[s].pc = "streaming"
    /\ LET r == stream.requests[s]
           key == AddressOf(r.registered)
           map == GetGuestUsage(stream.guestUsage, key)
       IN  stream' =
               IF r.registered /\ r.conversation_id
               THEN [stream EXCEPT !.messages_today = @ + 1,
                                   !.served.registered = @ + 1,
                                   !.requests[s] = IdleRequest]
               ELSE [stream EXCEPT !.guestUsage = [map EXCEPT ![key].count = @ + 1],
                                   !.served[Caller(r.registered)] = @ + 1,
                                   !.requests[s] = IdleRequest]
    /\ UNCHANGED <<clock, engine, op, input, decision, steps, poo, por, poi, bundle,
                   pooLog, history>>

NextStream ==
    \/ \E s \in Slots : OptionalAuth(s, BOOLEAN, BOOLEAN)
    \/ \E s \in Slots : CheckUsageLimit(s)
    \/ \E s \in Slots : FinishStream(s)

SpecStream == Init /\ [][NextStream]_vars

\* C30: for each UTC day, the number of /api/ai/stream requests served never
\* exceeds 20 for any guest key and 50 for any registered user, under every
\* interleaving of concurrent requests and with or without a conversation_id.
C30_DailyLimitsHold ==
    /\ stream.served.guest <= PLAN_LIMITS.guest.messages_per_day
    /\ stream.served.registered <= PLAN_LIMITS.free.messages_per_day

\* two guest requests checked while the count was 19, both served
GuestServedTwentyOne ==
    /\ stream.served.guest = GUEST_LIMIT + 1
    /\ stream.guestUsage[GuestAddress].count = GUEST_LIMIT + 1

\* a registered user sending without conversation_id: the row never moves
RegisteredServedWithoutCount ==
    /\ stream.served.registered = PLAN_LIMITS.free.messages_per_day + 1
    /\ stream.messages_today = 0
    /\ ~stream.refused.registered

\* the counters account for every request served, and a guest whose count
\* has reached the limit before the check is refused
CountersMatchServed ==
    /\ stream.served.guest = stream.guestUsage[GuestAddress].count
    /\ stream.served.registered =
          stream.messages_today + stream.guestUsage[UserAddress].count

GuestRefused == stream.refused.guest /\ stream.served.guest = GUEST_LIMIT

=============================================================================
